---- MODULE Spec2Model ----
(***************************************************************************)
(* CodeForge AI: the static analyzer (src/src/core/analyzer.py), the       *)
(* model-backed agents (src/src/agents/*.py), the offline mock test        *)
(* generator and the entry points that drive them (src/main.py,            *)
(* src/src/ui/web_interface.py).                                           *)
(*                                                                         *)
(* A source text is represented by what the program measures of it: how    *)
(* ast.parse answers, the syntax tree it yields, the number of lines, and  *)
(* the number of matches of each regular expression the program applies.   *)
(* Scores with one decimal (maintainability) are kept in tenths.           *)
(***************************************************************************)
EXTENDS Integers, Sequences, FiniteSets, TLC

VARIABLES
    analyzer,   \* the CodeAnalyzer instance: its three pattern tables
    used,       \* whether analyze_code has returned before on this instance
    pc,         \* "idle": no call in progress; "returned": a call has returned
    call,       \* the operation last called and its arguments
    result,     \* what that call returned or raised
    clients     \* ChatOpenAI clients created by the call last made

vars == <<analyzer, used, pc, call, result, clients>>

----------------------------------------------------------------------------
(* Bounds of the model. *)

MaxNodes == 3        \* nodes of a syntax tree below the Module node
MaxValues == 3       \* operands of one boolean operation
MaxAnalyzeNodes == 1 \* nodes of a tree handed to analyze_code
MaxLines == 1000     \* lines of a source text
MaxMatches == 3      \* matches of one security or performance pattern
MaxKeywords == 50    \* control-flow keywords in a source text
MaxDefs == 1         \* matches of one function_def pattern
MaxTests == 2        \* test functions in a model response
MaxFunctions == 2    \* function definitions in a source handed to a test generator
MaxClasses == 2      \* class definitions in a source handed to a test generator
MaxTemplateFunctions == 4  \* function matches in a source the test templates are filled from
MaxTemplateClasses == 3    \* class matches in a source the test templates are filled from
MaxReviewLines == 3        \* lines of a response handed to the review parser
MaxRefactorLines == 6      \* lines of a response handed to the refactoring parser
MaxCodeLines == 3          \* lines of the code inside a fenced block
MaxSuggestFunctions == 6   \* function matches in a source suggestions are asked for
MaxSuggestClasses == 4     \* class matches in a source suggestions are asked for
MaxEntries == 4            \* lines of one section in a review the summary is made from
MaxIndent == 1             \* levels of indentation of a line of that code

----------------------------------------------------------------------------
(* Small helpers. *)

Max(a, b) == IF a >= b THEN a ELSE b
Min(a, b) == IF a <= b THEN a ELSE b

----------------------------------------------------------------------------
(* Python syntax trees, as ast.parse builds them.                          *)
(* A tree is a sequence of nodes below the Module node (node 0); node i    *)
(* names its parent, an earlier node, and the children of a node are       *)
(* ordered by index.  Only the node classes the program tests with         *)
(* isinstance are kept, and With stands for any other statement that has   *)
(* a body.  A BoolOp carries len(node.values); its operands are            *)
(* expressions, so below a BoolOp only BoolOps occur.                      *)

StmtTypes == {"If", "While", "For", "AsyncFor", "Try", "ExceptHandler",
              "FunctionDef", "ClassDef", "Import", "With"}
NodeTypes == StmtTypes \cup {"BoolOp"}

Nodes == [type : StmtTypes, parent : 0..(MaxNodes - 1), values : {0}]
         \cup [type : {"BoolOp"}, parent : 0..(MaxNodes - 1), values : 2..MaxValues]

NodeType(tree, i) == IF i = 0 THEN "Module" ELSE tree[i].type

WellFormed(tree) ==
    \A i \in 1..Len(tree) :
        /\ tree[i].parent < i
        /\ NodeType(tree, tree[i].parent) # "Import"
        /\ (tree[i].type = "ExceptHandler") => (NodeType(tree, tree[i].parent) = "Try")
        /\ (NodeType(tree, tree[i].parent) = "BoolOp") => (tree[i].type = "BoolOp")
        /\ (tree[i].type = "BoolOp") =>
              Cardinality({j \in 1..Len(tree) : tree[j].parent = i}) <= tree[i].values

TreesOfLen(n) == {t \in [1..n -> Nodes] : WellFormed(t)}

Trees == UNION {TreesOfLen(n) : n \in 0..MaxNodes}

(* ast.iter_child_nodes(node): the children of node i, in field order. *)
RECURSIVE ChildrenFrom(_, _, _)
ChildrenFrom(tree, i, j) ==
    IF j > Len(tree) THEN <<>>
    ELSE (IF tree[j].parent = i THEN <<j>> ELSE <<>>) \o ChildrenFrom(tree, i, j + 1)

iter_child_nodes(tree, i) == ChildrenFrom(tree, i, 1)

(* ast.walk(tree): breadth-first from the Module node, a deque of pending  *)
(* nodes; each popped node is yielded and its children are appended.       *)
RECURSIVE WalkFrom(_, _)
WalkFrom(tree, todo) ==
    IF todo = <<>> THEN <<>>
    ELSE <<Head(todo)>> \o WalkFrom(tree, Tail(todo) \o iter_child_nodes(tree, Head(todo)))

ast_walk(tree) == WalkFrom(tree, <<0>>)

----------------------------------------------------------------------------
(* CodeAnalyzer._calculate_cyclomatic_complexity *)

(* a slip: the AsyncFor class left out of the isinstance tuple *)
ComplexityOfNode_NoAsyncFor(tree, i) ==
    LET ty == NodeType(tree, i) IN
    IF ty \in {"If", "While", "For"} THEN 1
    ELSE IF ty = "ExceptHandler" THEN 1
    ELSE IF ty = "BoolOp" THEN tree[i].values - 1
    ELSE 0

(* the increment of one visited node *)
ComplexityOfNode(tree, i) ==
    LET ty == NodeType(tree, i) IN
    IF ty \in {"If", "While", "For", "AsyncFor"} THEN 1
    ELSE IF ty = "ExceptHandler" THEN 1
    ELSE IF ty = "BoolOp" THEN tree[i].values - 1
    ELSE 0

RECURSIVE ComplexityLoop(_, _, _)
ComplexityLoop(tree, nodes, complexity) ==
    IF nodes = <<>> THEN complexity
    ELSE ComplexityLoop(tree, Tail(nodes), complexity + ComplexityOfNode(tree, Head(nodes)))

_calculate_cyclomatic_complexity(tree) == ComplexityLoop(tree, ast_walk(tree), 1)

----------------------------------------------------------------------------
(* CodeAnalyzer.__init__: the three pattern tables, in dict order.  A      *)
(* language table is named by its key.                                     *)

CodeAnalyzer_init ==
    [security_patterns |-> <<"sql_injection", "xss", "hardcoded_password",
                             "unsafe_eval", "weak_random">>,
     performance_patterns |-> <<"nested_loops", "inefficient_string", "large_list_comp">>,
     language_patterns |-> {"javascript", "java", "python"}]

SecurityNames == {"sql_injection", "xss", "hardcoded_password", "unsafe_eval", "weak_random"}
PerformanceNames == {"nested_loops", "inefficient_string", "large_list_comp"}
TableNames == {"javascript", "java", "python"}

----------------------------------------------------------------------------
(* Source texts handed to the analyzer.                                    *)
(*   kind        how ast.parse answers: "valid" a tree; "syntax_error"     *)
(*               SyntaxError; "too_deep" a grammatical source beyond the   *)
(*               parser's recursion limit, RecursionError (for instance    *)
(*               "1+1+...+1" with 200000 terms); "not_str" an argument     *)
(*               that is no string, TypeError                              *)
(*   tree        the tree of a "valid" source                              *)
(*   lines       len(code.split('\n'))                                     *)
(*   security, performance   matches of each pattern under re.finditer     *)
(*   keywords    matches of the ten control-flow keyword patterns          *)
(*   defs        matches of each language table's function_def pattern     *)
(* A source of the model holds no Name node, no docstring, no number of    *)
(* three digits, no line over 80 characters and only snake_case or         *)
(* camelCase function names.                                               *)

Kinds == {"valid", "syntax_error", "too_deep", "not_str"}
LineCounts == {1, 10, MaxLines}
MatchCounts == {0, 1, MaxMatches}
KeywordCounts == {0, 3, MaxKeywords}

NoMatches(names) == [n \in names |-> 0]
EmptyTree == <<>>

AnalyzeTrees == UNION {TreesOfLen(n) : n \in 0..MaxAnalyzeNodes}

(* sources that differ in their syntax tree and length *)
TreeCodes ==
    [kind : {"valid"}, tree : AnalyzeTrees, lines : LineCounts,
     security : {NoMatches(SecurityNames)}, performance : {NoMatches(PerformanceNames)},
     keywords : {0}, defs : {NoMatches(TableNames)}]

(* sources that differ in length, control-flow keywords and function definitions *)
KeywordCodes ==
    [kind : {"valid"}, tree : {EmptyTree}, lines : LineCounts,
     security : {NoMatches(SecurityNames)}, performance : {NoMatches(PerformanceNames)},
     keywords : KeywordCounts, defs : [TableNames -> 0..MaxDefs]]

(* sources that differ in the patterns they match *)
PatternCodes ==
    [kind : {"valid"}, tree : {EmptyTree}, lines : {1},
     security : [SecurityNames -> MatchCounts],
     performance : [PerformanceNames -> MatchCounts],
     keywords : {0}, defs : {NoMatches(TableNames)}]

(* sources ast.parse rejects *)
RejectedCodes ==
    [kind : Kinds \ {"valid"}, tree : {EmptyTree}, lines : LineCounts,
     security : {NoMatches(SecurityNames)}, performance : {NoMatches(PerformanceNames)},
     keywords : {0}, defs : {NoMatches(TableNames)}]

Codes == TreeCodes \cup KeywordCodes \cup PatternCodes \cup RejectedCodes

Languages == {"python", "javascript", "java", "cpp", "go", "rust"}

----------------------------------------------------------------------------
(* Outcomes of a call: a returned value or a raised exception. *)

Returned(v) == [tag |-> "return", value |-> v]
Raised(e) == [tag |-> "raise", exc |-> e]

(* ast.parse(code) *)
ast_parse(code) ==
    IF code.kind = "valid" THEN Returned(code.tree)
    ELSE IF code.kind = "syntax_error" THEN Raised("SyntaxError")
    ELSE IF code.kind = "too_deep" THEN Raised("RecursionError")
    ELSE Raised("TypeError")

(* code.split('\n') and the regular-expression functions need a string *)
IsStr(code) == code.kind # "not_str"

----------------------------------------------------------------------------
(* Scores. *)

(* a slip: the clamp at 0 left out *)
MaintainabilityIndex_NoClamp(complexity, lines) == 1000 - complexity * 20 - lines

(* max(0, 100 - complexity * 2 - lines * 0.1), in tenths *)
MaintainabilityIndex(complexity, lines) == Max(0, 1000 - complexity * 20 - lines)

RECURSIVE Repeat(_, _)
Repeat(x, n) == IF n = 0 THEN <<>> ELSE <<x>> \o Repeat(x, n - 1)

(* the issues one pattern table yields, pattern by pattern, match by match *)
RECURSIVE PatternIssues(_, _)
PatternIssues(patterns, matches) ==
    IF patterns = <<>> THEN <<>>
    ELSE Repeat([type |-> Head(patterns)], matches[Head(patterns)])
         \o PatternIssues(Tail(patterns), matches)

(* a slip: the score returned as it was counted down, not clamped at 0 *)
_security_analysis_NoClamp(self, code) ==
    LET issues == PatternIssues(self.security_patterns, code.security)
        score == 100 - 20 * Len(issues)
    IN [score |-> score,
        issues |-> issues,
        risk_level |-> IF score < 50 THEN "high" ELSE IF score < 80 THEN "medium" ELSE "low"]

_security_analysis(self, code) ==
    LET issues == PatternIssues(self.security_patterns, code.security)
        score == 100 - 20 * Len(issues)
    IN [score |-> Max(0, score),
        issues |-> issues,
        risk_level |-> IF score < 50 THEN "high" ELSE IF score < 80 THEN "medium" ELSE "low"]

_performance_analysis(self, code) ==
    LET issues == PatternIssues(self.performance_patterns, code.performance)
        score == 100 - 15 * Len(issues)
    IN [score |-> Max(0, score),
        issues |-> issues,
        optimization_level |-> IF score < 60 THEN "high" ELSE IF score < 80 THEN "medium" ELSE "low"]

(* the patterns of a table that re.search finds at least once *)
RECURSIVE Found(_, _)
Found(patterns, matches) ==
    IF patterns = <<>> THEN 0
    ELSE (IF matches[Head(patterns)] > 0 THEN 1 ELSE 0) + Found(Tail(patterns), matches)

_calculate_security_score(self, code) ==
    Max(0, 100 - 20 * Found(self.security_patterns, code.security))

_calculate_performance_score(self, code) ==
    Max(0, 100 - 15 * Found(self.performance_patterns, code.performance))

_calculate_metrics(self, tree, code) ==
    LET lines == code.lines
        complexity == _calculate_cyclomatic_complexity(tree)
    IN [lines_of_code |-> lines,
        cyclomatic_complexity |-> complexity,
        maintainability_index |-> MaintainabilityIndex(complexity, lines),
        security_score |-> _calculate_security_score(self, code),
        performance_score |-> _calculate_performance_score(self, code),
        test_coverage |-> 0]

----------------------------------------------------------------------------
(* The tree passes of the Python path. *)

(* the nodes of the given classes, in ast.walk order *)
RECURSIVE Select(_, _, _)
Select(tree, nodes, types) ==
    IF nodes = <<>> THEN <<>>
    ELSE (IF NodeType(tree, Head(nodes)) \in types THEN <<Head(nodes)>> ELSE <<>>)
         \o Select(tree, Tail(nodes), types)

RECURSIVE NestingLoop(_, _, _, _)
NestingLoop(tree, nodes, current_depth, max_depth) ==
    IF nodes = <<>> THEN max_depth
    ELSE LET ty == NodeType(tree, Head(nodes)) IN
         IF ty \in {"If", "For", "While", "Try"}
         THEN NestingLoop(tree, Tail(nodes), current_depth + 1,
                          Max(max_depth, current_depth + 1))
         ELSE IF ty = "FunctionDef"
         THEN NestingLoop(tree, Tail(nodes), 0, max_depth)
         ELSE NestingLoop(tree, Tail(nodes), current_depth, max_depth)

_calculate_nesting_depth(tree) == NestingLoop(tree, ast_walk(tree), 0, 0)

ComplexityLevel(complexity) ==
    IF complexity > 10 THEN "high" ELSE IF complexity > 5 THEN "medium" ELSE "low"

_analyze_complexity(tree) ==
    LET complexity == _calculate_cyclomatic_complexity(tree)
    IN [cyclomatic_complexity |-> complexity,
        complexity_level |-> ComplexityLevel(complexity),
        nesting_depth |-> _calculate_nesting_depth(tree)]

_analyze_structure(tree) ==
    [total_classes |-> Len(Select(tree, ast_walk(tree), {"ClassDef"})),
     total_functions |-> Len(Select(tree, ast_walk(tree), {"FunctionDef"})),
     total_imports |-> Len(Select(tree, ast_walk(tree), {"Import"}))]

(* _find_issues: every import is unused (no Name node), every BoolOp of    *)
(* more than three operands is a complex expression                        *)
RECURSIVE IssuesOf(_, _, _)
IssuesOf(tree, nodes, issue) ==
    IF nodes = <<>> THEN <<>> ELSE <<issue>> \o IssuesOf(tree, Tail(nodes), issue)

ComplexBoolOps(tree) ==
    LET ops == Select(tree, ast_walk(tree), {"BoolOp"})
    IN SelectSeq(ops, LAMBDA i : tree[i].values > 3)

_find_issues(tree) ==
    IssuesOf(tree, Select(tree, ast_walk(tree), {"Import"}),
             [severity |-> "warning", category |-> "style"])
    \o IssuesOf(tree, ComplexBoolOps(tree),
                [severity |-> "info", category |-> "complexity"])

(* _generate_suggestions: a docstring suggestion for every FunctionDef *)
_generate_suggestions(tree) ==
    IssuesOf(tree, Select(tree, ast_walk(tree), {"FunctionDef"}), "Add docstring to function")

----------------------------------------------------------------------------
(* The regex passes of the generic path. *)

_calculate_generic_complexity(code) == 1 + code.keywords

_analyze_generic_structure(code, patterns) ==
    [total_classes |-> 0,
     total_functions |-> code.defs[patterns],
     total_imports |-> 0]

----------------------------------------------------------------------------
(* CodeAnalyzer._analyze_python_code *)

(* a slip: no handler for SyntaxError, the exception leaves the method *)
_analyze_python_code_NoHandler(self, code) ==
    LET parsed == ast_parse(code) IN
    IF parsed.tag = "return"
    THEN LET tree == parsed.value IN
         Returned([metrics |-> _calculate_metrics(self, tree, code),
                   issues |-> _find_issues(tree),
                   structure |-> _analyze_structure(tree),
                   complexity |-> _analyze_complexity(tree),
                   security |-> _security_analysis(self, code),
                   performance |-> _performance_analysis(self, code),
                   suggestions |-> _generate_suggestions(tree)])
    ELSE parsed

_analyze_python_code(self, code) ==
    LET parsed == ast_parse(code) IN
    IF parsed.tag = "return"
    THEN LET tree == parsed.value IN
         Returned([metrics |-> _calculate_metrics(self, tree, code),
                   issues |-> _find_issues(tree),
                   structure |-> _analyze_structure(tree),
                   complexity |-> _analyze_complexity(tree),
                   security |-> _security_analysis(self, code),
                   performance |-> _performance_analysis(self, code),
                   suggestions |-> _generate_suggestions(tree)])
    ELSE IF parsed.exc = "SyntaxError"
    THEN Returned([error |-> "Syntax error", line |-> "e.lineno", offset |-> "e.offset"])
    ELSE parsed

(* a slip: the Python table as the default *)
PatternsFor_PythonDefault(self, language) ==
    IF language \in self.language_patterns THEN language ELSE "python"

(* self.language_patterns.get(language, self.language_patterns['javascript']) *)
PatternsFor(self, language) ==
    IF language \in self.language_patterns THEN language ELSE "javascript"

(* CodeAnalyzer._analyze_generic_code *)
_analyze_generic_code(self, code, language) ==
    IF ~IsStr(code) THEN Raised("AttributeError")
    ELSE
    LET patterns == PatternsFor(self, language)
        lines == code.lines
        complexity == _calculate_generic_complexity(code)
        security == _security_analysis(self, code)
        performance == _performance_analysis(self, code)
    IN Returned([metrics |-> [lines_of_code |-> lines,
                              cyclomatic_complexity |-> complexity,
                              maintainability_index |-> MaintainabilityIndex(complexity, lines),
                              security_score |-> security.score,
                              performance_score |-> performance.score,
                              test_coverage |-> 0],
                 issues |-> <<>>,
                 structure |-> _analyze_generic_structure(code, patterns),
                 complexity |-> [cyclomatic_complexity |-> complexity,
                                 complexity_level |-> ComplexityLevel(complexity),
                                 nesting_depth |-> 0],
                 security |-> security,
                 performance |-> performance,
                 suggestions |-> <<>>])

(* CodeAnalyzer.analyze_code: the result, with "except Exception" applied *)
analyze_code(self, code, language) ==
    LET body == IF language = "python"
                THEN _analyze_python_code(self, code)
                ELSE _analyze_generic_code(self, code, language)
    IN IF body.tag = "raise"
       THEN Returned([error |-> "Analysis error", language |-> language])
       ELSE body

----------------------------------------------------------------------------
(* API keys.  None is Python's None; a key is falsy when None or empty.    *)

None == "<None>"
Falsy(x) == x \in {None, ""}

(* Python's  a or b *)
Or(a, b) == IF Falsy(a) THEN b ELSE a

ApiKeyArgs == {None, "", "sk-arg"}   \* the api_key argument
EnvKeys == {None, "", "sk-env"}      \* os.getenv("OPENAI_API_KEY")

(* Constructors.  Each answers with its outcome and with the number of     *)
(* ChatOpenAI clients it has created by then.                              *)

(* a slip: the client built before the key is tested *)
CodeReviewAgent_init_ClientFirst(api_key, env) ==
    LET key == Or(api_key, env)
    IN IF Falsy(key)
       THEN [outcome |-> Raised("ValueError"), clients |-> 1]
       ELSE [outcome |-> Returned([class |-> "CodeReviewAgent", api_key |-> key,
                                   llm |-> "ChatOpenAI"]),
             clients |-> 1]

CodeReviewAgent_init(api_key, env) ==
    LET key == Or(api_key, env)
    IN IF Falsy(key)
       THEN [outcome |-> Raised("ValueError"), clients |-> 0]
       ELSE [outcome |-> Returned([class |-> "CodeReviewAgent", api_key |-> key,
                                   llm |-> "ChatOpenAI"]),
             clients |-> 1]

TestGeneratorAgent_init(api_key, env) ==
    LET key == Or(api_key, env)
    IN IF Falsy(key)
       THEN [outcome |-> Raised("ValueError"), clients |-> 0]
       ELSE [outcome |-> Returned([class |-> "TestGeneratorAgent", api_key |-> key,
                                   llm |-> "ChatOpenAI"]),
             clients |-> 1]

RefactorAgent_init(api_key, env) ==
    LET key == Or(api_key, env)
    IN IF Falsy(key)
       THEN [outcome |-> Raised("ValueError"), clients |-> 0]
       ELSE [outcome |-> Returned([class |-> "RefactorAgent", api_key |-> key,
                                   llm |-> "ChatOpenAI"]),
             clients |-> 1]

CIIntegrationAgent_init(api_key, env) ==
    LET key == Or(api_key, env)
    IN IF Falsy(key)
       THEN [outcome |-> Raised("ValueError"), clients |-> 0]
       ELSE [outcome |-> Returned([class |-> "CIIntegrationAgent", api_key |-> key,
                                   llm |-> "ChatOpenAI"]),
             clients |-> 1]

(* the argument is ignored and no client is built *)
MockTestGeneratorAgent_init(api_key, env) ==
    [outcome |-> Returned([class |-> "MockTestGeneratorAgent", api_key |-> "mock_key"]),
     clients |-> 0]

(* CodeForgeAI tests the key, then builds the analyzer and three agents *)
CodeForgeAI_init(api_key, env) ==
    LET key == Or(api_key, env)
    IN IF Falsy(key)
       THEN [outcome |-> Raised("ValueError"), clients |-> 0]
       ELSE LET review == CodeReviewAgent_init(key, env)
                test == TestGeneratorAgent_init(key, env)
                refactor == RefactorAgent_init(key, env)
            IN IF review.outcome.tag = "raise"
               THEN review
               ELSE IF test.outcome.tag = "raise"
               THEN [outcome |-> test.outcome, clients |-> review.clients + test.clients]
               ELSE IF refactor.outcome.tag = "raise"
               THEN [outcome |-> refactor.outcome,
                     clients |-> review.clients + test.clients + refactor.clients]
               ELSE [outcome |-> Returned([class |-> "CodeForgeAI", api_key |-> key,
                                           analyzer |-> CodeAnalyzer_init,
                                           review_agent |-> review.outcome.value,
                                           test_agent |-> test.outcome.value,
                                           refactor_agent |-> refactor.outcome.value]),
                     clients |-> review.clients + test.clients + refactor.clients]

Classes == {"CodeForgeAI", "CodeReviewAgent", "TestGeneratorAgent", "RefactorAgent",
            "CIIntegrationAgent", "MockTestGeneratorAgent"}

Construct(class, api_key, env) ==
    CASE class = "CodeForgeAI" -> CodeForgeAI_init(api_key, env)
      [] class = "CodeReviewAgent" -> CodeReviewAgent_init(api_key, env)
      [] class = "TestGeneratorAgent" -> TestGeneratorAgent_init(api_key, env)
      [] class = "RefactorAgent" -> RefactorAgent_init(api_key, env)
      [] class = "CIIntegrationAgent" -> CIIntegrationAgent_init(api_key, env)
      [] OTHER -> MockTestGeneratorAgent_init(api_key, env)

(* main() of main.py.                                                      *)
(*   file   "readable": a file with code; "unreadable": open() raises;     *)
(*          "blank": the text is empty after strip(); "stdin": no file     *)
(*          argument, the code is read from standard input                 *)
(* The answer is the exit status, the mode that ran and the clients built. *)
Modes == {"analyze", "review", "test", "refactor", "comprehensive"}
Files == {"readable", "unreadable", "blank", "stdin"}

main(api_key, env, file, mode) ==
    LET codeforge == CodeForgeAI_init(api_key, env)
    IN IF codeforge.outcome.tag = "raise"
       THEN [exit |-> 1, ran |-> "none", clients |-> codeforge.clients]
       ELSE IF file = "unreadable"
       THEN [exit |-> 1, ran |-> "none", clients |-> codeforge.clients]
       ELSE IF file = "blank"
       THEN [exit |-> 0, ran |-> "none", clients |-> codeforge.clients]
       ELSE [exit |-> 0, ran |-> mode, clients |-> codeforge.clients]

----------------------------------------------------------------------------
(* The model-backed agents.                                                *)
(* What chain.invoke answers is the environment's choice: a string, a      *)
(* message object that is no string (what a chat model returns when the    *)
(* chain has no output parser), or an exception (network, quota).          *)
(*   tests   test functions the test patterns find in a string response    *)
(*   yaml    whether a string response holds a fenced yaml block           *)

(*   lines   a string response as response.split('\n') gives it            *)

(* A line of a response, kept as what the parsers look at.                 *)
(*   lead   how the stripped line starts: "blank" (nothing is left of it), *)
(*          "#", "-" (a bullet), "fence" (three backquotes), "text" (anything else)   *)
(*          a line of code starts with "def f" or "def g" (it defines that *)
(*          function and opens a block) or is "text"                       *)
(*   keys   the sections one of whose keywords line.lower() holds          *)
(*   indent the levels of leading whitespace of the line as it was sent    *)
Line(lead, keys) == [lead |-> lead, keys |-> keys, indent |-> 0]

Indented(line, indent) == [line EXCEPT !.indent = indent]

(* line.strip(): the leading whitespace goes *)
Strip(line) == [line EXCEPT !.indent = 0]

BlankLine == Line("blank", {})

FenceLine == Line("fence", {})

(* the section keys of _parse_review_response, in the order of its elifs *)
ReviewSections ==
    <<"overall_assessment", "critical_issues", "code_quality", "performance",
      "security", "best_practices", "refactoring_opportunities", "positive_aspects">>

(* the section keys of _parse_refactor_response, in the order of its elifs *)
RefactorSections == <<"changes_summary", "improvements", "suggestions">>

Range(seq) == {seq[i] : i \in 1..Len(seq)}

(* the if/elif chain: the first section, in the order of the chain, one of *)
(* whose keywords the line holds; "none" when it holds no keyword          *)
DetectSection_LastWins(order, line) ==
    LET hits == {i \in 1..Len(order) : order[i] \in line.keys}
    IN IF hits = {} THEN "none"
       ELSE order[CHOOSE i \in hits : \A j \in hits : j <= i]

DetectSection(order, line) ==
    LET hits == {i \in 1..Len(order) : order[i] \in line.keys}
    IN IF hits = {} THEN "none"
       ELSE order[CHOOSE i \in hits : \A j \in hits : i <= j]

(* what is stored of a line: line[1:].strip() of a bullet in a list        *)
(* section, the line itself otherwise                                      *)
Entry(line, stripped) == [line |-> line, stripped |-> stripped]

(* One turn of the loop of _parse_review_response on a line that is not    *)
(* blank. overall_assessment, a string, is kept as the lines concatenated  *)
(* into it.                                                                *)
ReviewLine_StoreFirst(state, line) ==
    LET detected == DetectSection(ReviewSections, line)
        current_section == state.current_section
        stored ==
            IF current_section # "none" /\ line.lead # "#"
            THEN [state.sections EXCEPT ![current_section] =
                     Append(@, Entry(line, current_section # "overall_assessment"
                                           /\ line.lead = "-"))]
            ELSE state.sections
    IN [current_section |-> IF detected # "none" THEN detected ELSE current_section,
        sections |-> stored]

ReviewLine(state, line) ==
    LET detected == DetectSection(ReviewSections, line)
        current_section == IF detected # "none" THEN detected ELSE state.current_section
        stored ==
            IF current_section # "none" /\ line.lead # "#"
            THEN [state.sections EXCEPT ![current_section] =
                     Append(@, Entry(line, current_section # "overall_assessment"
                                           /\ line.lead = "-"))]
            ELSE state.sections
    IN [current_section |-> current_section, sections |-> stored]

RECURSIVE ReviewLoop(_, _)
ReviewLoop(lines, state) ==
    IF lines = <<>> THEN state
    ELSE IF Head(lines).lead = "blank" THEN ReviewLoop(Tail(lines), state)
    ELSE ReviewLoop(Tail(lines), ReviewLine(state, Strip(Head(lines))))

(* CodeReviewAgent._parse_review_response on a string *)
ParseReview(lines) ==
    ReviewLoop(lines, [current_section |-> "none",
                       sections |-> [s \in Range(ReviewSections) |-> <<>>]]).sections

(* One turn of the loop of _parse_refactor_response on a line that is not  *)
(* blank.                                                                  *)
RefactorLine_OpenOnly(state, line) ==
    IF line.lead = "fence"
    THEN [state EXCEPT !.in_code_block = TRUE]
    ELSE IF state.in_code_block
    THEN [state EXCEPT !.code_block = Append(@, line)]
    ELSE LET detected == DetectSection(RefactorSections, line)
             current_section ==
                 IF detected # "none" THEN detected ELSE state.current_section
         IN IF current_section # "none" /\ line.lead # "#"
            THEN [state EXCEPT !.current_section = current_section,
                               !.sections[current_section] =
                                   Append(@, Entry(line, line.lead = "-"))]
            ELSE [state EXCEPT !.current_section = current_section]

RefactorLine(state, line) ==
    IF line.lead = "fence"
    THEN IF state.in_code_block
         THEN [state EXCEPT !.refactored_code = state.code_block,
                            !.in_code_block = FALSE,
                            !.code_block = <<>>]
         ELSE [state EXCEPT !.in_code_block = TRUE]
    ELSE IF state.in_code_block
    THEN [state EXCEPT !.code_block = Append(@, line)]
    ELSE LET detected == DetectSection(RefactorSections, line)
             current_section ==
                 IF detected # "none" THEN detected ELSE state.current_section
         IN IF current_section # "none" /\ line.lead # "#"
            THEN [state EXCEPT !.current_section = current_section,
                               !.sections[current_section] =
                                   Append(@, Entry(line, line.lead = "-"))]
            ELSE [state EXCEPT !.current_section = current_section]

RECURSIVE RefactorLoop(_, _)
RefactorLoop(lines, state) ==
    IF lines = <<>> THEN state
    ELSE IF Head(lines).lead = "blank" THEN RefactorLoop(Tail(lines), state)
    ELSE RefactorLoop(Tail(lines), RefactorLine(state, Strip(Head(lines))))

(* RefactorAgent._parse_refactor_response on a string; refactored_code,    *)
(* the lines joined by "\n", is kept as the lines                          *)
ParseRefactor(lines) ==
    LET end == RefactorLoop(lines, [current_section |-> "none",
                                    in_code_block |-> FALSE,
                                    code_block |-> <<>>,
                                    refactored_code |-> <<>>,
                                    sections |-> [s \in Range(RefactorSections) |-> <<>>]])
    IN [refactored_code |-> end.refactored_code,
        changes_summary |-> end.sections["changes_summary"],
        improvements |-> end.sections["improvements"],
        suggestions |-> end.sections["suggestions"]]

(* The lines of the responses the review parser is run on: plain lines     *)
(* with the keywords of no section, of one, or of two; markdown headers;   *)
(* bullets; blank lines.                                                   *)
ReviewKeySets ==
    {{}} \cup {{s} : s \in Range(ReviewSections)}
         \cup {{"critical_issues", "security"},
               {"overall_assessment", "positive_aspects"},
               {"code_quality", "refactoring_opportunities"}}

ReviewLines ==
    {Line("text", keys) : keys \in ReviewKeySets}
        \cup {Line("#", keys) : keys \in {{}, {"security"}, {"critical_issues", "security"}}}
        \cup {Line("-", keys) : keys \in {{}, {"performance"}}}
        \cup {BlankLine}

(* response.split('\n') gives at least one line *)
TextsOf(lines, longest) == UNION {[1..n -> lines] : n \in 1..longest}

ReviewTexts == TextsOf(ReviewLines, MaxReviewLines)

(* The lines of the responses the refactoring parser is run on. *)
RefactorLines ==
    {FenceLine, BlankLine, Line("text", {}), Line("text", {"changes_summary"}),
     Line("#", {"suggestions"})}

RefactorTexts == TextsOf(RefactorLines, MaxRefactorLines)

(* Python code as lines.  A "def" line opens a block: the next line that   *)
(* is not blank lies one level deeper; after any other line the next one   *)
(* lies at the same level or at an enclosing one.                          *)
Opens(line) == line.lead \in {"def f", "def g"}

NotBlank(line) == line.lead # "blank"

(* ast.parse accepts the text *)
IsValidPython(lines) ==
    LET code == SelectSeq(lines, NotBlank)
    IN \/ code = <<>>
       \/ /\ \A i \in 1..Len(code) : code[i].lead \in {"def f", "def g", "text"}
          /\ code[1].indent = 0
          /\ ~Opens(code[Len(code)])
          /\ \A i \in 1..(Len(code) - 1) :
                IF Opens(code[i]) THEN code[i + 1].indent = code[i].indent + 1
                ELSE code[i + 1].indent <= code[i].indent

(* the names of the FunctionDef nodes of ast.walk, as a list *)
FunctionNames(lines) ==
    LET defs == SelectSeq(lines, Opens)
    IN [k \in 1..Len(defs) |-> defs[k].lead]

(* RefactorAgent.apply_refactoring; IndentationError is a SyntaxError *)
apply_refactoring(original_code, refactored_code) ==
    IF ~IsValidPython(original_code) \/ ~IsValidPython(refactored_code)
    THEN [success |-> FALSE, error |-> "Syntax error in refactored code"]
    ELSE LET original_functions == FunctionNames(original_code)
             refactored_functions == FunctionNames(refactored_code)
             missing_functions == Range(original_functions) \ Range(refactored_functions)
         IN [success |-> missing_functions = {},
             missing_functions |-> missing_functions,
             preserved_functions |-> Len(original_functions),
             new_functions |-> Cardinality(Range(refactored_functions)
                                               \ Range(original_functions))]

(* The lines of the code a fenced block holds, and the original code.      *)
CodeLines ==
    {Indented(Line(lead, {}), indent) : lead \in {"def f", "def g", "text"},
                                        indent \in 0..MaxIndent}
        \cup {BlankLine}

CodeTexts == UNION {[1..n -> CodeLines] : n \in 0..MaxCodeLines}

OriginalCodes ==
    {<<Line("text", {})>>,
     <<Line("def f", {}), Indented(Line("text", {}), 1)>>}

(* a response whose only fenced block holds the given lines *)
SingleBlock(block) ==
    [kind |-> "str", tests |-> 0, yaml |-> FALSE,
     lines |-> <<Line("text", {"changes_summary"}), FenceLine>> \o block \o <<FenceLine>>]

(* The texts the model answers with where the claim is not about parsing:  *)
(* the empty string, and a review with a fenced block.                      *)
SampleTexts ==
    {<<BlankLine>>,
     <<Line("#", {"critical_issues"}), Line("-", {}), FenceLine,
       Line("text", {}), FenceLine, Line("text", {"changes_summary"})>>}

Responses ==
    [kind : {"str"}, tests : 0..MaxTests, yaml : BOOLEAN, lines : SampleTexts]
        \cup {[kind |-> "message", tests |-> 0, yaml |-> FALSE, lines |-> <<>>]}

Invocations == {Returned(r) : r \in Responses} \cup {Raised("APIError")}

(* The analysis_results argument.                                          *)
(*   "None"      no analysis                                               *)
(*   "error"     the analyzer's error dictionary                           *)
(*   "analysis"  the analyzer's seven-key dictionary                       *)
(*   "plain"     a dictionary whose 'metrics' is a plain dict, not a       *)
(*               CodeMetrics object (attribute access raises)              *)
AnalysisArgs == {"None", "error", "analysis", "plain"}

CodeReviewAgent_format_analysis_results(analysis) ==
    IF analysis = "plain" THEN Raised("AttributeError")
    ELSE Returned("analysis text")

RefactorAgent_format_analysis_results(analysis) ==
    IF analysis = "plain" THEN Raised("AttributeError")
    ELSE Returned("analysis text")

(* response.split('\n') needs a string *)
_parse_review_response(response) ==
    IF response.kind = "str" THEN Returned(ParseReview(response.lines))
    ELSE Raised("AttributeError")

_parse_refactor_response(response) ==
    IF response.kind = "str" THEN Returned(ParseRefactor(response.lines))
    ELSE Raised("AttributeError")

(* a slip: the try/except left out *)
review_code_NoHandler(analysis_results, invoked) ==
    LET analysis_text ==
            IF analysis_results = "None" THEN Returned("No static analysis available")
            ELSE CodeReviewAgent_format_analysis_results(analysis_results)
        response == IF analysis_text.tag = "raise" THEN analysis_text ELSE invoked
        structured_review ==
            IF response.tag = "raise" THEN response
            ELSE _parse_review_response(response.value)
    IN IF structured_review.tag = "raise"
       THEN structured_review
       ELSE Returned([success |-> TRUE, review |-> structured_review.value,
                      raw_response |-> response.value])

(* CodeReviewAgent.review_code *)
review_code(analysis_results, invoked) ==
    LET analysis_text ==
            IF analysis_results = "None" THEN Returned("No static analysis available")
            ELSE CodeReviewAgent_format_analysis_results(analysis_results)
        response == IF analysis_text.tag = "raise" THEN analysis_text ELSE invoked
        structured_review ==
            IF response.tag = "raise" THEN response
            ELSE _parse_review_response(response.value)
    IN IF structured_review.tag = "raise"
       THEN Returned([success |-> FALSE, error |-> structured_review.exc, review |-> None])
       ELSE Returned([success |-> TRUE, review |-> structured_review.value,
                      raw_response |-> response.value])

(* RefactorAgent.suggest_refactoring *)
suggest_refactoring(analysis_results, invoked) ==
    LET analysis_text ==
            IF analysis_results = "None" THEN Returned("No static analysis available")
            ELSE RefactorAgent_format_analysis_results(analysis_results)
        response == IF analysis_text.tag = "raise" THEN analysis_text ELSE invoked
        structured_refactor ==
            IF response.tag = "raise" THEN response
            ELSE _parse_refactor_response(response.value)
    IN IF structured_refactor.tag = "raise"
       THEN Returned([success |-> FALSE, error |-> structured_refactor.exc,
                      refactored_code |-> None])
       ELSE Returned([success |-> TRUE,
                      refactored_code |-> structured_refactor.value.refactored_code,
                      changes_summary |-> structured_refactor.value.changes_summary,
                      improvements |-> structured_refactor.value.improvements,
                      suggestions |-> structured_refactor.value.suggestions,
                      raw_response |-> response.value])

(* Source texts handed to the test generators.                             *)
(*   functions, classes   matches of the function and class patterns;      *)
(*                        a source of the model that parses has as many    *)
(*                        FunctionDef and ClassDef nodes, all at top level *)
TreeWith(functions, classes) ==
    Repeat([type |-> "FunctionDef", parent |-> 0, values |-> 0], functions)
        \o Repeat([type |-> "ClassDef", parent |-> 0, values |-> 0], classes)

TestedCodes ==
    {[kind |-> kind, lines |-> lines, functions |-> functions, classes |-> classes,
      tree |-> IF kind = "valid" THEN TreeWith(functions, classes) ELSE EmptyTree] :
        kind \in Kinds, lines \in {1, 10},
        functions \in 0..MaxFunctions, classes \in 0..MaxClasses}

(* re.findall needs a string; the texts are kept as the number of test     *)
(* functions in each                                                       *)
_parse_test_response(response) ==
    IF response.kind = "str"
    THEN Returned([unit_tests |-> response.tests, integration_tests |-> 0,
                   edge_case_tests |-> 0, test_setup |-> 0, imports |-> 0,
                   fixtures |-> 0])
    ELSE Raised("TypeError")

UnknownCoverage ==
    [estimated_coverage |-> 0, total_functions |-> 0, total_classes |-> 0,
     test_functions |-> 0, coverage_level |-> "unknown"]

(* min(95, test_functions / max(1, total_functions) * 100), rounded down;  *)
(* the level is decided on the exact quotient                              *)
EstimatedCoverage(total_functions, total_classes, tests) ==
    LET test_functions == tests.unit_tests + tests.integration_tests + tests.edge_case_tests
        estimated_coverage == Min(95, (test_functions * 100) \div Max(1, total_functions))
        exact == Min(95 * Max(1, total_functions), test_functions * 100)
    IN [estimated_coverage |-> estimated_coverage,
        total_functions |-> total_functions,
        total_classes |-> total_classes,
        test_functions |-> test_functions,
        coverage_level |-> IF exact > 80 * Max(1, total_functions) THEN "high"
                           ELSE IF exact > 60 * Max(1, total_functions) THEN "medium"
                           ELSE "low"]

(* the nodes are counted on the walk of the tree; any exception gives the  *)
(* "unknown" dictionary                                                    *)
TestGeneratorAgent_estimate_python_coverage(code, tests) ==
    LET tree == ast_parse(code)
    IN IF tree.tag = "raise" THEN UnknownCoverage
       ELSE EstimatedCoverage(
                Len(Select(tree.value, ast_walk(tree.value), {"FunctionDef"})),
                Len(Select(tree.value, ast_walk(tree.value), {"ClassDef"})),
                tests)

(* the definitions are counted by the language's patterns *)
TestGeneratorAgent_estimate_generic_coverage(code, tests) ==
    IF ~IsStr(code) THEN Raised("TypeError")
    ELSE Returned(EstimatedCoverage(code.functions, code.classes, tests))

(* TestGeneratorAgent._estimate_test_coverage: any exception gives the     *)
(* "unknown" dictionary                                                    *)
TestGeneratorAgent_estimate_test_coverage(code, tests, language) ==
    IF language = "python"
    THEN TestGeneratorAgent_estimate_python_coverage(code, tests)
    ELSE LET estimate == TestGeneratorAgent_estimate_generic_coverage(code, tests)
         IN IF estimate.tag = "raise" THEN UnknownCoverage ELSE estimate.value

(* TestGeneratorAgent.generate_tests; _analyze_code_structure catches      *)
(* every exception itself                                                  *)
TestGeneratorAgent_generate_tests(code, language, invoked) ==
    LET response == invoked
        structured_tests ==
            IF response.tag = "raise" THEN response
            ELSE _parse_test_response(response.value)
    IN IF structured_tests.tag = "raise"
       THEN Returned([success |-> FALSE, error |-> structured_tests.exc, tests |-> None])
       ELSE Returned([success |-> TRUE,
                      tests |-> structured_tests.value,
                      raw_response |-> response.value,
                      coverage_estimate |->
                          TestGeneratorAgent_estimate_test_coverage(
                              code, structured_tests.value, language)])

(* The features argument of the workflow generator: None, a list of        *)
(* strings, or a list that holds something else (", ".join raises).        *)
FeatureArgs == {"None", "strings", "mixed"}

_extract_workflow_yaml(response) ==
    IF response.kind = "str" /\ response.yaml THEN "extracted workflow"
    ELSE "default workflow"

(* CIIntegrationAgent.generate_github_actions_workflow; the extractors     *)
(* catch every exception themselves                                        *)
generate_github_actions_workflow(features, invoked) ==
    LET joined == IF features = "mixed" THEN Raised("TypeError") ELSE Returned("features")
        response == IF joined.tag = "raise" THEN joined ELSE invoked
    IN IF response.tag = "raise"
       THEN Returned([success |-> FALSE, error |-> response.exc])
       ELSE Returned([success |-> TRUE,
                      workflow_yaml |-> _extract_workflow_yaml(response.value),
                      setup_instructions |-> "setup_instructions",
                      environment_variables |-> "environment_variables",
                      usage_examples |-> "usage_examples"])

----------------------------------------------------------------------------
(* The mock test generator.                                                *)

MockLanguages == {"python", "Python", "javascript", None}
Frameworks == {"pytest", "unittest"}

(* language.lower() *)
Lower(language) == IF language = "Python" THEN "python" ELSE language

(* random.randint(a, b) *)
randint(a, b) == a..b

CoverageEstimateDraws == randint(70, 95)
JitterDraws == randint(-10, 10)
(* of the draws for branches_covered, the two extreme ones *)
BranchDraws == {b \in randint(60, 90) : b = 60 \/ b = 90}

(* a slip: every function gets its tests, the slice [:3] left out *)
_generate_mock_test_code_NoLimit(code) ==
    <<"header">>
        \o Repeat("function", code.functions)
        \o Repeat("class", Min(code.classes, 2))
        \o (IF code.functions + code.classes > 0 THEN <<"integration">> ELSE <<>>)
        \o (IF code.functions > 0 THEN <<"edge">> ELSE <<>>)

(* The generated test code, block by block: the header with the imports    *)
(* and the fixture, three tests for each of the first three functions, two *)
(* for each of the first two classes, two integration tests when anything  *)
(* was found, two edge-case tests when a function was found.               *)
_generate_mock_test_code(code) ==
    <<"header">>
        \o Repeat("function", Min(code.functions, 3))
        \o Repeat("class", Min(code.classes, 2))
        \o (IF code.functions + code.classes > 0 THEN <<"integration">> ELSE <<>>)
        \o (IF code.functions > 0 THEN <<"edge">> ELSE <<>>)

(* matches of  def test_  in one block *)
DefTests(block) ==
    CASE block = "function" -> 3
      [] block = "class" -> 2
      [] block = "integration" -> 2
      [] block = "edge" -> 2
      [] OTHER -> 0

(* occurrences of  @pytest.fixture  in one block *)
Fixtures(block) == IF block = "header" THEN 1 ELSE 0

(* whether a block holds the line  import pytest *)
ImportsPytest(block) == block = "header"

RECURSIVE CountFixtures(_)
CountFixtures(test_code) ==
    IF test_code = <<>> THEN 0
    ELSE Fixtures(Head(test_code)) + CountFixtures(Tail(test_code))

RECURSIVE CountDefTests(_)
CountDefTests(test_code) ==
    IF test_code = <<>> THEN 0
    ELSE DefTests(Head(test_code)) + CountDefTests(Tail(test_code))

Blocks(test_code, block) == Cardinality({i \in 1..Len(test_code) : test_code[i] = block})

(* no function or class of the model is named after a test category *)
_parse_mock_test_response(test_code, framework, language, estimate) ==
    [framework |-> framework,
     language |-> language,
     test_code |-> test_code,
     test_count |-> CountDefTests(test_code),
     categories |-> [unit_tests |-> Blocks(test_code, "function"),
                     integration_tests |-> Blocks(test_code, "integration"),
                     edge_case_tests |-> Blocks(test_code, "edge"),
                     error_tests |-> Blocks(test_code, "edge")],
     coverage_estimate |-> estimate,
     complexity |-> "Medium"]

(* a slip: the floor of 70 left out *)
coverage_percentage_NoFloor(test_count, jitter) == Min(95, test_count * 10 + jitter)

(* min(95, max(70, test_count * 10 + random.randint(-10, 10))) *)
coverage_percentage(test_count, jitter) == Min(95, Max(70, test_count * 10 + jitter))

MeasuredCoverage(code, tests, jitter, branches) ==
    [total_lines |-> code.lines,
     test_lines |-> tests.test_count * 5,
     coverage_percentage |-> coverage_percentage(tests.test_count, jitter),
     functions_covered |-> code.functions,
     classes_covered |-> code.classes,
     branches_covered |-> branches,
     complexity |-> "Medium"]

(* only SyntaxError is caught *)
MockTestGeneratorAgent_estimate_python_coverage(code, tests, jitter, branches) ==
    LET tree == ast_parse(code)
    IN IF tree.tag = "raise"
       THEN IF tree.exc = "SyntaxError"
            THEN Returned([total_lines |-> code.lines, test_lines |-> 0,
                           coverage_percentage |-> 0, functions_covered |-> 0,
                           classes_covered |-> 0, branches_covered |-> 0,
                           complexity |-> "Unknown"])
            ELSE tree
       ELSE Returned(MeasuredCoverage(code, tests, jitter, branches))

MockTestGeneratorAgent_estimate_generic_coverage(code, tests, jitter, branches) ==
    IF ~IsStr(code) THEN Raised("AttributeError")
    ELSE Returned(MeasuredCoverage(code, tests, jitter, branches))

MockTestGeneratorAgent_estimate_test_coverage(code, tests, language, jitter, branches) ==
    IF language = None THEN Raised("AttributeError")
    ELSE IF Lower(language) = "python"
    THEN MockTestGeneratorAgent_estimate_python_coverage(code, tests, jitter, branches)
    ELSE MockTestGeneratorAgent_estimate_generic_coverage(code, tests, jitter, branches)

(* the structure string, or what the look at the code raises *)
MockTestGeneratorAgent_analyze_code_structure(code, language) ==
    IF language = None THEN Raised("AttributeError")
    ELSE IF Lower(language) = "python"
    THEN LET tree == ast_parse(code)
         IN IF tree.tag = "raise" /\ tree.exc # "SyntaxError" THEN tree
            ELSE Returned("structure")
    ELSE IF ~IsStr(code) THEN Raised("TypeError")
    ELSE Returned("structure")

(* seven suggestions, two more for large sources, cut to the first five *)
suggest_test_improvements(code) ==
    LET suggestions ==
            <<"Replace placeholder assertions with actual test logic",
              "Add more specific test cases for edge conditions",
              "Include performance tests for critical functions",
              "Add property-based testing for better coverage",
              "Consider adding mutation testing",
              "Include tests for concurrent execution if applicable",
              "Add tests for different input types and formats">>
            \o (IF code.functions > 5
                THEN <<"Consider breaking down large functions for better testability">>
                ELSE <<>>)
            \o (IF code.classes > 3
                THEN <<"Add more comprehensive class method tests">>
                ELSE <<>>)
    IN SubSeq(suggestions, 1, Min(5, Len(suggestions)))

EmptyDict == <<>>

(* a slip: the failure dictionary of the model-backed generator *)
MockTestGeneratorAgent_generate_tests_Bare(code, language, framework, estimate, jitter, branches) ==
    LET functions_classes == MockTestGeneratorAgent_analyze_code_structure(code, language)
        test_code ==
            IF functions_classes.tag = "raise" THEN functions_classes
            ELSE IF ~IsStr(code) THEN Raised("TypeError")
            ELSE Returned(_generate_mock_test_code(code))
        tests ==
            IF test_code.tag = "raise" THEN test_code
            ELSE Returned(_parse_mock_test_response(test_code.value, framework, language,
                                                    estimate))
        coverage ==
            IF tests.tag = "raise" THEN tests
            ELSE MockTestGeneratorAgent_estimate_test_coverage(code, tests.value, language,
                                                               jitter, branches)
    IN IF coverage.tag = "raise"
       THEN Returned([success |-> FALSE,
                      error |-> "Mock test generation failed",
                      tests |-> None])
       ELSE Returned([success |-> TRUE,
                      tests |-> tests.value,
                      coverage |-> coverage.value,
                      summary |-> "summary",
                      suggestions |-> suggest_test_improvements(code),
                      raw_response |-> test_code.value])

(* MockTestGeneratorAgent.generate_tests *)
MockTestGeneratorAgent_generate_tests(code, language, framework, estimate, jitter, branches) ==
    LET functions_classes == MockTestGeneratorAgent_analyze_code_structure(code, language)
        test_code ==
            IF functions_classes.tag = "raise" THEN functions_classes
            ELSE IF ~IsStr(code) THEN Raised("TypeError")
            ELSE Returned(_generate_mock_test_code(code))
        tests ==
            IF test_code.tag = "raise" THEN test_code
            ELSE Returned(_parse_mock_test_response(test_code.value, framework, language,
                                                    estimate))
        coverage ==
            IF tests.tag = "raise" THEN tests
            ELSE MockTestGeneratorAgent_estimate_test_coverage(code, tests.value, language,
                                                               jitter, branches)
    IN IF coverage.tag = "raise"
       THEN Returned([success |-> FALSE,
                      error |-> "Mock test generation failed",
                      tests |-> EmptyDict,
                      coverage |-> EmptyDict,
                      summary |-> "Test generation failed",
                      suggestions |-> <<"Check code syntax", "Ensure valid Python code">>,
                      raw_response |-> ""])
       ELSE Returned([success |-> TRUE,
                      tests |-> tests.value,
                      coverage |-> coverage.value,
                      summary |-> "summary",
                      suggestions |-> suggest_test_improvements(code),
                      raw_response |-> test_code.value])

----------------------------------------------------------------------------
(* The web interface: how display_test_results reads a result.             *)

(* dict.get(key, default) *)
Get(dict, key, default) == IF key \in DOMAIN dict THEN dict[key] ELSE default

(* the demo result the web interface builds itself *)
demo_tests ==
    [success |-> TRUE,
     tests |-> [unit_tests |-> 3, integration_tests |-> 1, edge_case_tests |-> 1,
                fixtures |-> 1],
     coverage_estimate |-> [estimated_coverage |-> 85, total_functions |-> 3,
                            test_functions |-> 3, coverage_level |-> "good"]]

(* a slip: a result taken for a mock one on its raw_response alone *)
display_test_results_RawOnly(test_results) ==
    LET is_mock_response == "raw_response" \in DOMAIN test_results
        coverage == IF is_mock_response
                    THEN Get(test_results, "coverage", EmptyDict)
                    ELSE Get(test_results, "coverage_estimate", EmptyDict)
    IN [is_mock_response |-> is_mock_response, coverage |-> coverage]

(* the detection of a mock result and the coverage dictionary it selects *)
display_test_results(test_results) ==
    LET is_mock_response == /\ "raw_response" \in DOMAIN test_results
                            /\ "coverage" \in DOMAIN test_results
        coverage == IF is_mock_response
                    THEN Get(test_results, "coverage", EmptyDict)
                    ELSE Get(test_results, "coverage_estimate", EmptyDict)
    IN [is_mock_response |-> is_mock_response, coverage |-> coverage]

(* The handler of the Generate Analysis button (main of the web             *)
(* interface).  What it shows and which generators it calls is kept as a   *)
(* sequence of events, in order.                                           *)

(* the key the sidebar hands over; main returns before the button unless   *)
(* it starts with sk- or is one of the two mode names                      *)
WebKeys == {"demo_mode", "mock_ai", "sk-key"}
AnalysisModes == {"Test Generation", "Code Review", "Refactoring", "CI Integration"}

(* the message of an exception raised for an exhausted quota *)
QuotaError == "429 insufficient_quota"
WebInvocations == Invocations \cup {Raised(QuotaError)}

(* The text of the code box: a string, with everything the analyzer and    *)
(* the generators measure of it.                                           *)
WebCode(c) ==
    [kind |-> c.kind, tree |-> c.tree, lines |-> c.lines,
     security |-> NoMatches(SecurityNames),
     performance |-> NoMatches(PerformanceNames),
     keywords |-> 0,
     defs |-> [t \in TableNames |-> IF t = "python" THEN c.functions ELSE 0],
     functions |-> c.functions, classes |-> c.classes]

WebCodes == {WebCode(c) : c \in {t \in TestedCodes : t.kind # "not_str"}}

(* what the agents' formatting sees of the analyzer's result *)
AnalysisArg(analysis_results) ==
    IF "error" \in DOMAIN analysis_results THEN "error" ELSE "analysis"

Count(events, event) == Cardinality({i \in 1..Len(events) : events[i] = event})

(* The branch for Test Generation.  test_results is assigned in the last   *)
(* of the three branches only, and read after all of them.                 *)
TestGenerationBranch(api_key, code, language, framework, invoked, estimate, jitter, branches) ==
    LET mock_test_results ==
            MockTestGeneratorAgent_generate_tests(code, language, framework, estimate,
                                                  jitter, branches).value
        mock_shown ==
            <<"MockTestGeneratorAgent.generate_tests">>
                \o (IF mock_test_results.success THEN <<"display_test_results">>
                    ELSE <<"error: Mock test generation failed">>)
        test_results == TestGeneratorAgent_generate_tests(code, language, invoked).value
    IN IF api_key = "demo_mode"
       THEN [events |-> <<"display_test_results">>, raised |-> "UnboundLocalError"]
       ELSE IF api_key = "mock_ai"
       THEN [events |-> mock_shown, raised |-> "UnboundLocalError"]
       ELSE IF test_results.success
       THEN [events |-> <<"TestGeneratorAgent.generate_tests", "display_test_results">>,
             raised |-> "none"]
       ELSE IF test_results.error = QuotaError
       THEN [events |-> <<"TestGeneratorAgent.generate_tests", "warning: quota exceeded">>
                        \o mock_shown,
             raised |-> "none"]
       ELSE [events |-> <<"TestGeneratorAgent.generate_tests",
                          "error: Test generation failed">>,
             raised |-> "none"]

generate_analysis(api_key, analysis_mode, text, code, language, framework, invoked, estimate, jitter, branches) ==
    IF text = "blank" THEN <<"error: Please enter some code to analyze.">>
    ELSE
    LET analysis_results == analyze_code(CodeAnalyzer_init, code, language).value
        review_results == review_code(AnalysisArg(analysis_results), invoked).value
        refactor_results == suggest_refactoring(AnalysisArg(analysis_results), invoked).value
        ci_results == generate_github_actions_workflow("strings", invoked).value
        body ==
            IF TestGeneratorAgent_init(api_key, None).outcome.tag = "raise"
            THEN [events |-> <<>>, raised |-> "ValueError"]
            ELSE IF analysis_mode = "Test Generation"
            THEN TestGenerationBranch(api_key, code, language, framework, invoked,
                                      estimate, jitter, branches)
            ELSE IF analysis_mode = "Code Review"
            THEN [events |-> <<"CodeReviewAgent.review_code">>
                             \o (IF review_results.success THEN <<"display_review_results">>
                                 ELSE <<"error: Code review failed">>),
                  raised |-> "none"]
            ELSE IF analysis_mode = "Refactoring"
            THEN [events |-> <<"RefactorAgent.suggest_refactoring">>
                             \o (IF refactor_results.success
                                 THEN <<"display_refactor_results">>
                                 ELSE <<"error: Refactoring analysis failed">>),
                  raised |-> "none"]
            ELSE [events |-> <<"CIIntegrationAgent.generate_github_actions_workflow">>
                             \o (IF ci_results.success THEN <<"display_ci_results">>
                                 ELSE <<"error: CI integration failed">>),
                  raised |-> "none"]
    IN body.events
           \o (IF body.raised # "none" THEN <<"error: An error occurred">> ELSE <<>>)

----------------------------------------------------------------------------
(* CodeForgeAI, the command line's facade over the analyzer and the three  *)
(* model-backed agents.  Each method answers with the calls it made on     *)
(* them, in order, and with its value.                                     *)

Did(events, value) == [events |-> events, value |-> value]

(* the analysis argument left out, None or empty: "not analysis" holds *)
NoAnalysis == EmptyDict

Not(dict) == DOMAIN dict = {}

Take(seq, n) == SubSeq(seq, 1, Min(n, Len(seq)))

(* what chain.invoke answers to the review and the refactoring agent, and  *)
(* to the test generator                                                   *)
ReviewInvocations ==
    {i \in Invocations : i.tag = "return" => i.value.tests = 0 /\ ~i.value.yaml}

TestInvocations == {i \in Invocations : i.tag = "return" => ~i.value.yaml}

(* CodeForgeAI.analyze_code *)
CodeForgeAI_analyze_code(self, code) ==
    Did(<<"analyzer.analyze_code">>, analyze_code(self, code, "python").value)

(* CodeForgeAI.review_code *)
CodeForgeAI_review_code(self, code, analysis, invoked) ==
    LET analysed == IF Not(analysis) THEN CodeForgeAI_analyze_code(self, code)
                    ELSE Did(<<>>, analysis)
    IN Did(analysed.events \o <<"review_agent.review_code">>,
           review_code(AnalysisArg(analysed.value), invoked).value)

(* CodeForgeAI.generate_tests *)
CodeForgeAI_generate_tests(code, invoked) ==
    Did(<<"test_agent.generate_tests">>,
        TestGeneratorAgent_generate_tests(code, "python", invoked).value)

(* CodeForgeAI.refactor_code *)
CodeForgeAI_refactor_code(self, code, analysis, invoked) ==
    LET analysed == IF Not(analysis) THEN CodeForgeAI_analyze_code(self, code)
                    ELSE Did(<<>>, analysis)
    IN Did(analysed.events \o <<"refactor_agent.suggest_refactoring">>,
           suggest_refactoring(AnalysisArg(analysed.value), invoked).value)

(* a slip: the sections taken whole, not their first three entries *)
_generate_summary_NoCut(analysis, review, tests, refactor) ==
    LET has_metrics == "metrics" \in DOMAIN analysis
        metrics == analysis.metrics
        review_data == review.review
    IN [overall_score |->
            IF has_metrics
            THEN 10 * metrics.security_score + 10 * metrics.performance_score
                 + metrics.maintainability_index
            ELSE 0,
        issues_found |-> IF "issues" \in DOMAIN analysis THEN Len(analysis.issues) ELSE 0,
        recommendations |->
            IF review.success
            THEN review_data["critical_issues"] \o review_data["code_quality"]
                 \o review_data["security"] \o review_data["performance"]
            ELSE <<>>,
        test_coverage |->
            IF tests.success THEN tests.coverage_estimate.estimated_coverage ELSE 0,
        security_score |-> IF has_metrics THEN metrics.security_score ELSE 0,
        performance_score |-> IF has_metrics THEN metrics.performance_score ELSE 0]

(* CodeForgeAI._generate_summary.  overall_score, the mean of the two      *)
(* scores and of the maintainability index, is kept in thirtieths: ten     *)
(* times each score plus the index in tenths.                              *)
_generate_summary(analysis, review, tests, refactor) ==
    LET has_metrics == "metrics" \in DOMAIN analysis
        metrics == analysis.metrics
        review_data == review.review
    IN [overall_score |->
            IF has_metrics
            THEN 10 * metrics.security_score + 10 * metrics.performance_score
                 + metrics.maintainability_index
            ELSE 0,
        issues_found |-> IF "issues" \in DOMAIN analysis THEN Len(analysis.issues) ELSE 0,
        recommendations |->
            IF review.success
            THEN Take(review_data["critical_issues"], 3)
                 \o Take(review_data["code_quality"], 3)
                 \o Take(review_data["security"], 3)
                 \o Take(review_data["performance"], 3)
            ELSE <<>>,
        test_coverage |->
            IF tests.success THEN tests.coverage_estimate.estimated_coverage ELSE 0,
        security_score |-> IF has_metrics THEN metrics.security_score ELSE 0,
        performance_score |-> IF has_metrics THEN metrics.performance_score ELSE 0]

(* a slip: the analysis not handed on to the review *)
comprehensive_analysis_Reanalyse(self, code, invoked_review, invoked_tests, invoked_refactor) ==
    LET analysis == CodeForgeAI_analyze_code(self, code)
        review == CodeForgeAI_review_code(self, code, NoAnalysis, invoked_review)
        tests == CodeForgeAI_generate_tests(code, invoked_tests)
        refactor == CodeForgeAI_refactor_code(self, code, analysis.value, invoked_refactor)
    IN Did(analysis.events \o review.events \o tests.events \o refactor.events,
           IF "error" \in DOMAIN analysis.value THEN analysis.value
           ELSE [static_analysis |-> analysis.value,
                 code_review |-> review.value,
                 test_generation |-> tests.value,
                 refactoring |-> refactor.value,
                 summary |-> _generate_summary(analysis.value, review.value,
                                               tests.value, refactor.value)])

(* a slip: the run given up at the first agent that fails *)
comprehensive_analysis_StopAtFailure(self, code, invoked_review, invoked_tests, invoked_refactor) ==
    LET analysis == CodeForgeAI_analyze_code(self, code)
        review == CodeForgeAI_review_code(self, code, analysis.value, invoked_review)
        tests == CodeForgeAI_generate_tests(code, invoked_tests)
        refactor == CodeForgeAI_refactor_code(self, code, analysis.value, invoked_refactor)
    IN IF "error" \in DOMAIN analysis.value
       THEN Did(analysis.events, analysis.value)
       ELSE IF ~review.value.success
       THEN Did(analysis.events \o review.events, [code_review |-> review.value])
       ELSE Did(analysis.events \o review.events \o tests.events \o refactor.events,
                [static_analysis |-> analysis.value,
                 code_review |-> review.value,
                 test_generation |-> tests.value,
                 refactoring |-> refactor.value,
                 summary |-> _generate_summary(analysis.value, review.value,
                                               tests.value, refactor.value)])

(* CodeForgeAI.comprehensive_analysis *)
comprehensive_analysis(self, code, invoked_review, invoked_tests, invoked_refactor) ==
    LET analysis == CodeForgeAI_analyze_code(self, code)
        review == CodeForgeAI_review_code(self, code, analysis.value, invoked_review)
        tests == CodeForgeAI_generate_tests(code, invoked_tests)
        refactor == CodeForgeAI_refactor_code(self, code, analysis.value, invoked_refactor)
    IN IF "error" \in DOMAIN analysis.value
       THEN Did(analysis.events, analysis.value)
       ELSE Did(analysis.events \o review.events \o tests.events \o refactor.events,
                [static_analysis |-> analysis.value,
                 code_review |-> review.value,
                 test_generation |-> tests.value,
                 refactoring |-> refactor.value,
                 summary |-> _generate_summary(analysis.value, review.value,
                                               tests.value, refactor.value)])

----------------------------------------------------------------------------
(* The state machine. *)

NoCall == [op |-> "none"]
NoResult == [tag |-> "none"]

Init ==
    /\ analyzer = CodeAnalyzer_init
    /\ used = FALSE
    /\ pc = "idle"
    /\ call = NoCall
    /\ result = NoResult
    /\ clients = 0

(* A call of _calculate_cyclomatic_complexity on a parsed tree. *)
CalculateCyclomaticComplexity ==
    /\ pc = "idle"
    /\ \E tree \in Trees :
          /\ call' = [op |-> "_calculate_cyclomatic_complexity", tree |-> tree]
          /\ result' = Returned(_calculate_cyclomatic_complexity(tree))
    /\ pc' = "returned"
    /\ UNCHANGED <<analyzer, used, clients>>

(* A call of _calculate_nesting_depth on a parsed tree. *)
CalculateNestingDepth ==
    /\ pc = "idle"
    /\ \E tree \in Trees :
          /\ call' = [op |-> "_calculate_nesting_depth", tree |-> tree]
          /\ result' = Returned(_calculate_nesting_depth(tree))
    /\ pc' = "returned"
    /\ UNCHANGED <<analyzer, used, clients>>

(* a slip: dict.pop for dict.get, the looked-up table leaves the instance *)
AnalyzeCode_Pop ==
    /\ pc = "idle"
    /\ \E code \in Codes, language \in Languages :
          /\ call' = [op |-> "analyze_code", code |-> code, language |-> language]
          /\ result' = analyze_code(analyzer, code, language)
          /\ analyzer' = [analyzer EXCEPT !.language_patterns =
                              IF language = "python" THEN @ ELSE @ \ {language}]
    /\ pc' = "returned"
    /\ UNCHANGED <<used, clients>>

(* A call of analyze_code on the analyzer; it assigns no attribute. *)
AnalyzeCode ==
    /\ pc = "idle"
    /\ \E code \in Codes, language \in Languages :
          /\ call' = [op |-> "analyze_code", code |-> code, language |-> language]
          /\ result' = analyze_code(analyzer, code, language)
    /\ pc' = "returned"
    /\ UNCHANGED <<analyzer, used, clients>>

(* A constructor call; the instance is handed to the caller. *)
ConstructAgent ==
    /\ pc = "idle"
    /\ \E class \in Classes, api_key \in ApiKeyArgs, env \in EnvKeys :
          LET made == Construct(class, api_key, env)
          IN /\ call' = [op |-> "__init__", class |-> class, api_key |-> api_key,
                         env |-> env]
             /\ result' = made.outcome
             /\ clients' = made.clients
    /\ pc' = "returned"
    /\ UNCHANGED <<analyzer, used>>

(* A run of main.py; its result is the exit status. *)
Main ==
    /\ pc = "idle"
    /\ \E api_key \in ApiKeyArgs, env \in EnvKeys, file \in Files, mode \in Modes :
          LET run == main(api_key, env, file, mode)
          IN /\ call' = [op |-> "main", api_key |-> api_key, env |-> env,
                         file |-> file, mode |-> mode]
             /\ result' = Returned([exit |-> run.exit, ran |-> run.ran])
             /\ clients' = run.clients
    /\ pc' = "returned"
    /\ UNCHANGED <<analyzer, used>>

(* Calls on agents that were constructed with a key. *)
ReviewCode ==
    /\ pc = "idle"
    /\ \E analysis_results \in AnalysisArgs, invoked \in Invocations :
          /\ call' = [op |-> "review_code", analysis_results |-> analysis_results,
                      invoked |-> invoked]
          /\ result' = review_code(analysis_results, invoked)
    /\ pc' = "returned"
    /\ UNCHANGED <<analyzer, used, clients>>

SuggestRefactoring ==
    /\ pc = "idle"
    /\ \E analysis_results \in AnalysisArgs, invoked \in Invocations :
          /\ call' = [op |-> "suggest_refactoring", analysis_results |-> analysis_results,
                      invoked |-> invoked]
          /\ result' = suggest_refactoring(analysis_results, invoked)
    /\ pc' = "returned"
    /\ UNCHANGED <<analyzer, used, clients>>

GenerateTests ==
    /\ pc = "idle"
    /\ \E code \in TestedCodes, language \in Languages, invoked \in Invocations :
          /\ call' = [op |-> "generate_tests", code |-> code, language |-> language,
                      invoked |-> invoked]
          /\ result' = TestGeneratorAgent_generate_tests(code, language, invoked)
    /\ pc' = "returned"
    /\ UNCHANGED <<analyzer, used, clients>>

GenerateGithubActionsWorkflow ==
    /\ pc = "idle"
    /\ \E features \in FeatureArgs, invoked \in Invocations :
          /\ call' = [op |-> "generate_github_actions_workflow", features |-> features,
                      invoked |-> invoked]
          /\ result' = generate_github_actions_workflow(features, invoked)
    /\ pc' = "returned"
    /\ UNCHANGED <<analyzer, used, clients>>

(* A call of the mock generator; the random draws are not arguments. *)
MockGenerateTests ==
    /\ pc = "idle"
    /\ \E code \in TestedCodes, language \in MockLanguages, framework \in Frameworks,
          estimate \in CoverageEstimateDraws, jitter \in JitterDraws,
          branches \in BranchDraws :
          /\ call' = [op |-> "mock_generate_tests", code |-> code, language |-> language,
                      test_framework |-> framework]
          /\ result' = MockTestGeneratorAgent_generate_tests(code, language, framework,
                                                             estimate, jitter, branches)
    /\ pc' = "returned"
    /\ UNCHANGED <<analyzer, used, clients>>

(* The templates filled for a source and the generated code parsed: the   *)
(* two steps of generate_tests that build tests['test_count'].             *)
TemplateCodes ==
    [functions : 0..MaxTemplateFunctions, classes : 0..MaxTemplateClasses]

GenerateMockTestCode ==
    /\ pc = "idle"
    /\ \E code \in TemplateCodes, language \in MockLanguages \ {None},
          framework \in Frameworks, estimate \in CoverageEstimateDraws :
          /\ call' = [op |-> "_generate_mock_test_code", code |-> code,
                      language |-> language, test_framework |-> framework]
          /\ result' = Returned(_parse_mock_test_response(
                                    _generate_mock_test_code(code), framework, language,
                                    estimate))
    /\ pc' = "returned"
    /\ UNCHANGED <<analyzer, used, clients>>

(* The web interface displays a successful result: the demo result, one of *)
(* the mock generator, or one of the model-backed generator.               *)
Display(source, test_results) ==
    /\ test_results.success
    /\ call' = [op |-> "display_test_results", source |-> source,
                test_results |-> test_results]
    /\ result' = Returned(display_test_results(test_results))

DisplayTestResults ==
    /\ pc = "idle"
    /\ \/ Display("demo", demo_tests)
       \/ \E code \in TestedCodes, language \in MockLanguages, framework \in Frameworks,
             estimate \in CoverageEstimateDraws, jitter \in JitterDraws,
             branches \in BranchDraws :
             Display("mock", MockTestGeneratorAgent_generate_tests(
                                 code, language, framework, estimate, jitter,
                                 branches).value)
       \/ \E code \in TestedCodes, language \in Languages, invoked \in Invocations :
             Display("api", TestGeneratorAgent_generate_tests(code, language,
                                                              invoked).value)
    /\ pc' = "returned"
    /\ UNCHANGED <<analyzer, used, clients>>

(* The Generate Analysis button is pressed; the handler builds the four    *)
(* model-backed agents first.  What is shown does not depend on the random *)
(* draws of the mock generator: the extreme draws are taken.               *)
ExtremeEstimateDraws == {d \in CoverageEstimateDraws : d = 70 \/ d = 95}
ExtremeJitterDraws == {d \in JitterDraws : d = -10 \/ d = 10}

GenerateAnalysis ==
    /\ pc = "idle"
    /\ \E api_key \in WebKeys, analysis_mode \in AnalysisModes, text \in {"blank", "code"},
          code \in WebCodes, language \in Languages, framework \in Frameworks,
          invoked \in WebInvocations :
          /\ call' = [op |-> "generate_analysis", api_key |-> api_key,
                      analysis_mode |-> analysis_mode, text |-> text, code |-> code,
                      language |-> language, test_framework |-> framework,
                      invoked |-> invoked]
          /\ \E estimate \in ExtremeEstimateDraws, jitter \in ExtremeJitterDraws,
                branches \in BranchDraws :
                result' = Returned([events |->
                              generate_analysis(api_key, analysis_mode, text, code,
                                                language, framework, invoked, estimate,
                                                jitter, branches)])
          /\ clients' = IF text = "blank" THEN 0
                        ELSE TestGeneratorAgent_init(api_key, None).clients
                             + CodeReviewAgent_init(api_key, None).clients
                             + RefactorAgent_init(api_key, None).clients
                             + CIIntegrationAgent_init(api_key, None).clients
    /\ pc' = "returned"
    /\ UNCHANGED <<analyzer, used>>

(* A call of the review parser on a string response. *)
ParseReviewResponse ==
    /\ pc = "idle"
    /\ \E lines \in ReviewTexts :
          /\ call' = [op |-> "_parse_review_response", lines |-> lines]
          /\ result' = _parse_review_response([kind |-> "str", tests |-> 0,
                                               yaml |-> FALSE, lines |-> lines])
    /\ pc' = "returned"
    /\ UNCHANGED <<analyzer, used, clients>>

(* A call of the refactoring parser on a string response. *)
ParseRefactorResponse ==
    /\ pc = "idle"
    /\ \E lines \in RefactorTexts :
          /\ call' = [op |-> "_parse_refactor_response", lines |-> lines]
          /\ result' = _parse_refactor_response([kind |-> "str", tests |-> 0,
                                                 yaml |-> FALSE, lines |-> lines])
    /\ pc' = "returned"
    /\ UNCHANGED <<analyzer, used, clients>>

(* The refactored code of a response with one fenced block is parsed out  *)
(* and handed to apply_refactoring with the original code.                 *)
ApplyRefactoring ==
    /\ pc = "idle"
    /\ \E block \in CodeTexts, original_code \in OriginalCodes :
          LET refactored_code == _parse_refactor_response(SingleBlock(block)).value.refactored_code
          IN /\ call' = [op |-> "apply_refactoring", block |-> block,
                         original_code |-> original_code]
             /\ result' = Returned([refactored_code |-> refactored_code,
                                    applied |-> apply_refactoring(original_code,
                                                                  refactored_code)])
    /\ pc' = "returned"
    /\ UNCHANGED <<analyzer, used, clients>>

(* Sources with up to more than five functions and more than three        *)
(* classes; the patterns match in any string, parsable or not.             *)
SuggestCodes ==
    [kind : Kinds \ {"not_str"}, lines : {1, 10},
     functions : 0..MaxSuggestFunctions, classes : 0..MaxSuggestClasses]

(* A call of the mock generator's suggest_test_improvements. *)
SuggestTestImprovements ==
    /\ pc = "idle"
    /\ \E code \in SuggestCodes :
          /\ call' = [op |-> "suggest_test_improvements", code |-> code]
          /\ result' = Returned(suggest_test_improvements(code))
    /\ pc' = "returned"
    /\ UNCHANGED <<analyzer, used, clients>>

(* The arguments _generate_summary is called with: the results of the     *)
(* analyzer and of the agents on a source that parses.                     *)
(*   the sources differ in length, definitions and pattern matches         *)
SummaryCodes ==
    {[WebCode(c) EXCEPT !.security = [n \in SecurityNames |-> matches],
                        !.performance = [n \in PerformanceNames |-> matches]] :
        c \in {t \in TestedCodes : t.kind = "valid"}, matches \in MatchCounts}

(*   the reviews differ in the lines of the four sections the summary      *)
(*   reads; the sections come in another order than the summary's          *)
SummaryText(performance, security, code_quality, critical_issues) ==
    Repeat(Line("text", {"performance"}), performance)
        \o Repeat(Line("text", {"security"}), security)
        \o Repeat(Line("text", {"code_quality"}), code_quality)
        \o Repeat(Line("text", {"critical_issues"}), critical_issues)
        \o <<Line("text", {"positive_aspects"})>>

EntryCounts == {1, MaxEntries}

SummaryReviewInvocations ==
    {Returned([kind |-> "str", tests |-> 0, yaml |-> FALSE,
               lines |-> SummaryText(p, s, q, c)]) :
        p \in EntryCounts, s \in EntryCounts, q \in EntryCounts, c \in EntryCounts}
        \cup {Raised("APIError")}

SummaryTestInvocations ==
    {i \in TestInvocations : i.tag = "return" => i.value.lines = <<BlankLine>>}

(* A call of _generate_summary, as comprehensive_analysis makes it. *)
GenerateSummary ==
    /\ pc = "idle"
    /\ \E code \in SummaryCodes, invoked_review \in SummaryReviewInvocations,
          invoked_tests \in SummaryTestInvocations :
          LET analysis == CodeForgeAI_analyze_code(analyzer, code).value
              review == CodeForgeAI_review_code(analyzer, code, analysis, invoked_review).value
              tests == CodeForgeAI_generate_tests(code, invoked_tests).value
              refactor == CodeForgeAI_refactor_code(analyzer, code, analysis,
                                                    Raised("APIError")).value
          IN /\ call' = [op |-> "_generate_summary", analysis |-> analysis,
                         review |-> review, tests |-> tests, refactor |-> refactor]
             /\ result' = Returned(_generate_summary(analysis, review, tests, refactor))
    /\ pc' = "returned"
    /\ UNCHANGED <<analyzer, used, clients>>

(* A call of comprehensive_analysis on the text of a file. *)
ComprehensiveAnalysis ==
    /\ pc = "idle"
    /\ \E code \in WebCodes, invoked_review \in ReviewInvocations,
          invoked_tests \in TestInvocations, invoked_refactor \in ReviewInvocations :
          LET done == comprehensive_analysis(analyzer, code, invoked_review,
                                             invoked_tests, invoked_refactor)
          IN /\ call' = [op |-> "comprehensive_analysis", code |-> code,
                         invoked_review |-> invoked_review,
                         invoked_tests |-> invoked_tests,
                         invoked_refactor |-> invoked_refactor]
             /\ result' = Returned([events |-> done.events, value |-> done.value])
    /\ pc' = "returned"
    /\ UNCHANGED <<analyzer, used, clients>>

(* The caller drops the result and is ready for the next call. *)
Return ==
    /\ pc = "returned"
    /\ pc' = "idle"
    /\ call' = NoCall
    /\ result' = NoResult
    /\ clients' = 0
    /\ used' = (used \/ call.op = "analyze_code")
    /\ UNCHANGED analyzer

NextTree ==
    \/ CalculateCyclomaticComplexity
    \/ Return

SpecTree == Init /\ [][NextTree]_vars

NextNesting ==
    \/ CalculateNestingDepth
    \/ Return

SpecNesting == Init /\ [][NextNesting]_vars

NextAnalyzer ==
    \/ AnalyzeCode
    \/ Return

SpecAnalyzer == Init /\ [][NextAnalyzer]_vars

NextAgents ==
    \/ ConstructAgent
    \/ Main
    \/ ReviewCode
    \/ SuggestRefactoring
    \/ GenerateTests
    \/ GenerateGithubActionsWorkflow
    \/ Return

SpecAgents == Init /\ [][NextAgents]_vars

NextMock ==
    \/ MockGenerateTests
    \/ Return

SpecMock == Init /\ [][NextMock]_vars

NextTemplates ==
    \/ GenerateMockTestCode
    \/ Return

SpecTemplates == Init /\ [][NextTemplates]_vars

NextWeb ==
    \/ DisplayTestResults
    \/ Return

SpecWeb == Init /\ [][NextWeb]_vars

NextReviewParser == ParseReviewResponse \/ Return
SpecReviewParser == Init /\ [][NextReviewParser]_vars

NextRefactorParser == ParseRefactorResponse \/ Return
SpecRefactorParser == Init /\ [][NextRefactorParser]_vars

NextApply == ApplyRefactoring \/ Return
SpecApply == Init /\ [][NextApply]_vars

NextSuggest == SuggestTestImprovements \/ Return
SpecSuggest == Init /\ [][NextSuggest]_vars

NextSummary == GenerateSummary \/ Return
SpecSummary == Init /\ [][NextSummary]_vars

NextComprehensive == ComprehensiveAnalysis \/ Return
SpecComprehensive == Init /\ [][NextComprehensive]_vars

NextGenerate ==
    \/ GenerateAnalysis
    \/ Return

SpecGenerate == Init /\ [][NextGenerate]_vars

----------------------------------------------------------------------------
(* Properties. *)

AnalysisKeys == {"metrics", "issues", "structure", "complexity", "security",
                 "performance", "suggestions"}

RECURSIVE SumOver(_, _)
SumOver(S, tree) ==
    IF S = {} THEN 0
    ELSE LET i == CHOOSE x \in S : TRUE
         IN (tree[i].values - 1) + SumOver(S \ {i}, tree)

NodesOfType(tree, types) == {i \in 1..Len(tree) : tree[i].type \in types}

(* 1 + branching statements + (operands - 1) of every boolean operation *)
TreeComplexity(tree) ==
    1 + Cardinality(NodesOfType(tree, {"If", "While", "For", "AsyncFor", "ExceptHandler"}))
      + SumOver(NodesOfType(tree, {"BoolOp"}), tree)

ComplexityDone == pc = "returned" /\ call.op = "_calculate_cyclomatic_complexity"
AnalysisDone == pc = "returned" /\ call.op = "analyze_code"
AnalysisOk == AnalysisDone /\ result.tag = "return" /\ "error" \notin DOMAIN result.value

(* C1, as stated: the complexity of a tree is 1 plus the number of its If,  *)
(* While, For, AsyncFor, ExceptHandler and BoolOp nodes, each counting one. *)
C1_OneEach ==
    ComplexityDone =>
        result.value = 1 + Cardinality(NodesOfType(call.tree,
            {"If", "While", "For", "AsyncFor", "ExceptHandler", "BoolOp"}))

(* C1, amended: the complexity of a tree is 1 plus the number of its If,    *)
(* While, For, AsyncFor and ExceptHandler nodes plus, for every BoolOp, the *)
(* number of its operands less one; it is 1 for a tree with no such node    *)
(* and never below 1.                                                       *)
C1_Complexity ==
    ComplexityDone =>
        LET branches == NodesOfType(call.tree,
                            {"If", "While", "For", "AsyncFor", "ExceptHandler"})
            boolops == NodesOfType(call.tree, {"BoolOp"})
        IN /\ result.value = TreeComplexity(call.tree)
           /\ result.value >= 1
           /\ (branches = {} /\ boolops = {}) => result.value = 1

(* C1 witness: a tree with an AsyncFor and a BoolOp of three operands. *)
C1_Witness ==
    /\ ComplexityDone
    /\ \E i, j \in 1..Len(call.tree) :
          /\ call.tree[i].type = "AsyncFor"
          /\ call.tree[j].type = "BoolOp" /\ call.tree[j].values = 3
    /\ result.value = 4

(* C2: on both paths the maintainability index (in tenths) is               *)
(* max(0, 1000 - 20*complexity - lines) for the complexity the result       *)
(* reports and the line count of the input; it lies in 0..1000 and does not *)
(* grow when the complexity or the line count grows by one.                 *)
C2_Maintainability ==
    AnalysisOk =>
        LET m == result.value.metrics
            raw == 1000 - 20 * m.cyclomatic_complexity - call.code.lines
        IN /\ m.lines_of_code = call.code.lines
           /\ m.maintainability_index = (IF raw > 0 THEN raw ELSE 0)
           /\ m.maintainability_index >= 0
           /\ m.maintainability_index <= 1000
           /\ MaintainabilityIndex(m.cyclomatic_complexity + 1, m.lines_of_code)
                 <= m.maintainability_index
           /\ MaintainabilityIndex(m.cyclomatic_complexity, m.lines_of_code + 1)
                 <= m.maintainability_index

(* C2 witness: a generic-path result whose unclamped value is negative. *)
C2_Witness ==
    /\ AnalysisOk
    /\ call.language # "python"
    /\ 1000 - 20 * result.value.metrics.cyclomatic_complexity - call.code.lines < 0
    /\ result.value.metrics.maintainability_index = 0

(* what analyze_code owes its caller, for a given set of sources whose      *)
(* Python analysis is expected to complete                                  *)
ErrorContract(accepted) ==
    AnalysisDone =>
        /\ result.tag = "return"
        /\ LET keys == DOMAIN result.value
               python == call.language = "python"
               completed == IF python THEN call.code.kind = "valid"
                            ELSE call.code.kind # "not_str"
           IN /\ ("error" \in keys) <=> ~completed
              /\ (python /\ call.code.kind = "syntax_error") =>
                    /\ result.value.error = "Syntax error"
                    /\ keys = {"error", "line", "offset"}
              /\ ("error" \in keys /\ ~(python /\ call.code.kind = "syntax_error")) =>
                    /\ result.value.error = "Analysis error"
                    /\ keys = {"error", "language"}
                    /\ result.value.language = call.language
              /\ ("error" \in keys) => (keys \cap AnalysisKeys = {})
              /\ (python /\ call.code.kind \in accepted) => "error" \notin keys

(* C3, as stated: analyze_code never raises, reports 'error' exactly when   *)
(* the analysis did not complete, with the stated keys, and reports no      *)
(* 'error' for syntactically valid Python.                                  *)
C3_ValidPython == ErrorContract({"valid", "too_deep"})

(* C3, amended: the same, with no 'error' for Python that ast.parse accepts; *)
(* a grammatical source beyond the parser's limits gives 'Analysis error'.   *)
C3_ErrorContract == ErrorContract({"valid"})

(* C3 witness: a Python syntax error has been reported. *)
C3_Witness ==
    /\ AnalysisDone
    /\ call.language = "python"
    /\ call.code.kind = "syntax_error"
    /\ result.tag = "return"
    /\ result.value.error = "Syntax error"

(* C4: no call changes the pattern tables, and every result of analyze_code *)
(* is the one a freshly constructed analyzer gives for the same arguments.  *)
C4_Stateless ==
    /\ [](AnalysisDone => result = analyze_code(CodeAnalyzer_init, call.code, call.language))
    /\ [][analyzer' = analyzer]_vars

(* C4 witness: a completed analysis on an instance that has served before. *)
C4_Witness ==
    /\ AnalysisOk
    /\ used
    /\ analyzer = CodeAnalyzer_init
    /\ result.value.security.score < 100

(* C5: a successful result has the seven keys on both paths; for 'python'   *)
(* it reports the tree (its FunctionDef count, its complexity), for every   *)
(* other language the regex counts, with the table of the named language    *)
(* when there is one and the JavaScript table otherwise.                    *)
C5_Paths ==
    AnalysisOk =>
        /\ DOMAIN result.value = AnalysisKeys
        /\ IF call.language = "python"
           THEN /\ result.value.structure.total_functions
                      = Cardinality(NodesOfType(call.code.tree, {"FunctionDef"}))
                /\ result.value.metrics.cyclomatic_complexity
                      = TreeComplexity(call.code.tree)
           ELSE /\ result.value.metrics.cyclomatic_complexity = 1 + call.code.keywords
                /\ result.value.structure.total_functions
                      = call.code.defs[IF call.language \in {"javascript", "java"}
                                       THEN call.language ELSE "javascript"]

(* C5 witness: 'cpp' analysed with the JavaScript table. *)
C5_Witness ==
    /\ AnalysisOk
    /\ call.language = "cpp"
    /\ call.code.defs["javascript"] = 1
    /\ call.code.defs["java"] = 0
    /\ call.code.defs["python"] = 0
    /\ result.value.structure.total_functions = 1

----------------------------------------------------------------------------
(* The agents, the constructors, the mock generator and the web display. *)

AgentOps == {"review_code", "generate_tests", "suggest_refactoring",
             "generate_github_actions_workflow"}
AgentDone == pc = "returned" /\ call.op \in AgentOps
MockDone == pc = "returned" /\ call.op = "mock_generate_tests"
DisplayDone == pc = "returned" /\ call.op = "display_test_results"
ConstructDone == pc = "returned" /\ call.op = "__init__"
MainDone == pc = "returned" /\ call.op = "main"
NoKey == Falsy(call.api_key) /\ Falsy(call.env)

(* C6: review_code, generate_tests, suggest_refactoring and                 *)
(* generate_github_actions_workflow never raise; the dictionary they return *)
(* has a boolean 'success' and has 'error' exactly when 'success' is False. *)
C6_AgentContract ==
    AgentDone =>
        /\ result.tag = "return"
        /\ "success" \in DOMAIN result.value
        /\ result.value.success \in BOOLEAN
        /\ ("error" \in DOMAIN result.value) <=> (result.value.success = FALSE)

(* a review whose model call answered with a message object: the parser     *)
(* raised and the failure dictionary came back                              *)
C6_Witness ==
    /\ AgentDone
    /\ call.op = "review_code"
    /\ call.analysis_results = "analysis"
    /\ call.invoked.tag = "return"
    /\ call.invoked.value.kind = "message"
    /\ result.tag = "return"
    /\ result.value.success = FALSE
    /\ "error" \in DOMAIN result.value

MockKeys == {"success", "tests", "coverage", "raw_response", "summary", "suggestions"}

(* C7: the mock generate_tests never raises; its dictionary always has the  *)
(* keys success, tests, coverage, raw_response, summary and suggestions,    *)
(* and has 'error' exactly when 'success' is False.                         *)
C7_MockKeys ==
    MockDone =>
        /\ result.tag = "return"
        /\ MockKeys \subseteq DOMAIN result.value
        /\ result.value.success \in BOOLEAN
        /\ ("error" \in DOMAIN result.value) <=> (result.value.success = FALSE)

(* a grammatical Python source beyond the parser's limit: the failure       *)
(* dictionary, with all six keys                                            *)
C7_Witness ==
    /\ MockDone
    /\ call.language = "python"
    /\ call.code.kind = "too_deep"
    /\ result.tag = "return"
    /\ result.value.success = FALSE
    /\ DOMAIN result.value = MockKeys \cup {"error"}

(* C8: the web interface takes a successful mock result for a mock one, and *)
(* a successful result of the model-backed generator and the demo result    *)
(* for none; the coverage dictionary it then selects is not empty.          *)
C8_MockDetection ==
    DisplayDone =>
        /\ result.value.is_mock_response <=> (call.source = "mock")
        /\ DOMAIN result.value.coverage # {}

(* a result of the model-backed generator, which has a raw_response but no  *)
(* coverage key, displayed with its coverage_estimate                       *)
C8_Witness ==
    /\ DisplayDone
    /\ call.source = "api"
    /\ "raw_response" \in DOMAIN call.test_results
    /\ ~result.value.is_mock_response
    /\ "estimated_coverage" \in DOMAIN result.value.coverage

(* C9: the mock generator is constructed without a key and creates no       *)
(* client; CodeForgeAI and the four model-backed agents raise ValueError    *)
(* when neither the argument nor the environment holds a non-empty key,     *)
(* and no client has been created by then; main.py exits with status 1      *)
(* without a key, whatever the mode.                                        *)
C9_KeyRequired ==
    /\ ConstructDone /\ call.class = "MockTestGeneratorAgent" =>
           result.tag = "return" /\ clients = 0
    /\ ConstructDone /\ call.class # "MockTestGeneratorAgent" /\ NoKey =>
           result = Raised("ValueError") /\ clients = 0
    /\ MainDone /\ NoKey => result.value.exit = 1

(* main.py run in analyze mode on a readable file with an empty key *)
C9_Witness ==
    /\ MainDone
    /\ call.mode = "analyze"
    /\ call.file = "readable"
    /\ call.api_key = ""
    /\ call.env = None
    /\ result.value.exit = 1
    /\ clients = 0

(* C10: in a successful mock result tests['coverage_estimate'] is between   *)
(* 70 and 95; coverage_percentage is 0 with complexity 'Unknown' when the   *)
(* language is python and the code has a syntax error, and between 70 and   *)
(* 95 otherwise, whatever the random draws.                                 *)
C10_MockCoverage ==
    MockDone /\ result.value.success =>
        /\ result.value.tests.coverage_estimate \in 70..95
        /\ IF Lower(call.language) = "python" /\ call.code.kind = "syntax_error"
           THEN /\ result.value.coverage.coverage_percentage = 0
                /\ result.value.coverage.complexity = "Unknown"
           ELSE result.value.coverage.coverage_percentage \in 70..95

(* a source without functions or classes: no test, so the draw alone would  *)
(* give at most 10, and the floor of 70 applies                             *)
C10_Witness ==
    /\ MockDone
    /\ result.value.success
    /\ call.language = "javascript"
    /\ call.code.functions = 0
    /\ call.code.classes = 0
    /\ result.value.tests.test_count = 0
    /\ result.value.coverage.coverage_percentage = 70

----------------------------------------------------------------------------
(* The test templates of the mock generator. *)

TemplatesDone == pc = "returned" /\ call.op = "_generate_mock_test_code"

(* C11: the generated test code always holds 'import pytest' and one        *)
(* '@pytest.fixture'; it holds a 'def test_' exactly when the source has a  *)
(* function or class match; with f function and c class matches test_count *)
(* is 3*min(f,3) + 2*min(c,2) + (2 if f+c > 0) + (2 if f > 0).              *)
C11_TestCount ==
    TemplatesDone =>
        LET f == call.code.functions
            c == call.code.classes
            test_code == result.value.test_code
        IN /\ \E i \in 1..Len(test_code) : ImportsPytest(test_code[i])
           /\ CountFixtures(test_code) = 1
           /\ (\E i \in 1..Len(test_code) : DefTests(test_code[i]) > 0) <=> (f + c > 0)
           /\ result.value.test_count =
                  3 * Min(f, 3) + 2 * Min(c, 2)
                  + (IF f + c > 0 THEN 2 ELSE 0) + (IF f > 0 THEN 2 ELSE 0)

(* four functions and three classes: only three and two of them get tests *)
C11_Witness ==
    /\ TemplatesDone
    /\ call.code.functions = 4
    /\ call.code.classes = 3
    /\ result.value.test_count = 17
    /\ Blocks(result.value.test_code, "function") = 3
    /\ Blocks(result.value.test_code, "class") = 2

----------------------------------------------------------------------------
(* The Generate Analysis button of the web interface. *)

GenerateDone == pc = "returned" /\ call.op = "generate_analysis"

(* C12: in Test Generation mode with the key 'mock_ai' or 'demo_mode',      *)
(* pressing Generate on some code displays the test results exactly once,   *)
(* never calls TestGeneratorAgent.generate_tests and does not reach the     *)
(* handler that shows 'An error occurred'.                                  *)
C12_NoErrorShown ==
    /\ GenerateDone
    /\ call.analysis_mode = "Test Generation"
    /\ call.api_key \in {"mock_ai", "demo_mode"}
    /\ call.text = "code"
    => /\ Count(result.value.events, "display_test_results") = 1
       /\ Count(result.value.events, "TestGeneratorAgent.generate_tests") = 0
       /\ Count(result.value.events, "error: An error occurred") = 0

(* demo mode: the demo result is displayed, no generator is called, and the *)
(* read of test_results that follows ends in the handler                    *)
C12_Witness ==
    /\ GenerateDone
    /\ call.analysis_mode = "Test Generation"
    /\ call.api_key = "demo_mode"
    /\ call.text = "code"
    /\ result.value.events = <<"display_test_results", "error: An error occurred">>

ComprehensiveDone == pc = "returned" /\ call.op = "comprehensive_analysis"

AgentEvents ==
    {"review_agent.review_code", "test_agent.generate_tests",
     "refactor_agent.suggest_refactoring"}

(* C13: comprehensive_analysis runs the static analysis exactly once and    *)
(* before anything else; when the analysis holds 'error' it returns that    *)
(* analysis dictionary itself and calls none of the three agents.           *)
C13_AnalysisOnceAndFirst ==
    ComprehensiveDone =>
        LET events == result.value.events
            analysis == analyze_code(analyzer, call.code, "python").value
        IN /\ Count(events, "analyzer.analyze_code") = 1
           /\ events[1] = "analyzer.analyze_code"
           /\ "error" \in DOMAIN analysis
                  => /\ result.value.value = analysis
                     /\ \A i \in 1..Len(events) : events[i] \notin AgentEvents

C13_Witness ==
    /\ ComprehensiveDone
    /\ call.code.kind = "syntax_error"
    /\ call.invoked_review.tag = "return"
    /\ result.value.events = <<"analyzer.analyze_code">>
    /\ result.value.value.error = "Syntax error"

(* C14: when the static analysis succeeds, comprehensive_analysis calls the *)
(* code review, then the test generation, then the refactoring, each once   *)
(* and in that order, whether or not an earlier agent failed, and returns a *)
(* dictionary with exactly the keys static_analysis, code_review,           *)
(* test_generation, refactoring and summary.                                *)
C14_AllAgentsInOrder ==
    /\ ComprehensiveDone
    /\ "error" \notin DOMAIN analyze_code(analyzer, call.code, "python").value
    => /\ result.value.events =
              <<"analyzer.analyze_code", "review_agent.review_code",
                "test_agent.generate_tests", "refactor_agent.suggest_refactoring">>
       /\ DOMAIN result.value.value =
              {"static_analysis", "code_review", "test_generation", "refactoring", "summary"}

C14_Witness ==
    /\ ComprehensiveDone
    /\ call.code.kind = "valid"
    /\ ~result.value.value.code_review.success
    /\ ~result.value.value.test_generation.success
    /\ result.value.value.refactoring.success
    /\ Len(result.value.events) = 4

NestingDone == pc = "returned" /\ call.op = "_calculate_nesting_depth"

NestingTypes == {"If", "For", "While", "Try"}

(* the If, For, While and Try statements among node i and the statements   *)
(* it lies in                                                              *)
RECURSIVE DepthOf(_, _)
DepthOf(tree, i) ==
    IF i = 0 THEN 0
    ELSE (IF tree[i].type \in NestingTypes THEN 1 ELSE 0) + DepthOf(tree, tree[i].parent)

(* the largest number of If, For, While and Try statements lying one       *)
(* inside another                                                          *)
MaxNestingDepth(tree) ==
    IF tree = <<>> THEN 0
    ELSE LET depths == {DepthOf(tree, i) : i \in 1..Len(tree)}
         IN CHOOSE d \in depths : \A other \in depths : other <= d

(* C15: _calculate_nesting_depth returns the maximum nesting depth, the     *)
(* largest number of If, For, While and Try statements nested one inside    *)
(* another along any path of the tree: 1 for two sibling ifs, 2 for an if   *)
(* inside a for.                                                            *)
C15_NestingDepth ==
    NestingDone => result.value = MaxNestingDepth(call.tree)

(* two sibling ifs at top level are counted as depth 2 *)
C15_Witness ==
    /\ NestingDone
    /\ call.tree = <<[type |-> "If", parent |-> 0, values |-> 0],
                     [type |-> "If", parent |-> 0, values |-> 0]>>
    /\ MaxNestingDepth(call.tree) = 1
    /\ result.value = 2

(* C16: in every successful analysis, of Python or of another language,    *)
(* metrics.security_score equals analysis['security']['score'] and          *)
(* metrics.performance_score equals analysis['performance']['score'].       *)
C16_ScoresAgree ==
    AnalysisOk =>
        /\ result.value.metrics.security_score = result.value.security.score
        /\ result.value.metrics.performance_score = result.value.performance.score

(* a Python source in which one security pattern matches more than once *)
C16_Witness ==
    /\ AnalysisOk
    /\ call.language = "python"
    /\ call.code.security["unsafe_eval"] = MaxMatches
    /\ \A n \in SecurityNames \ {"unsafe_eval"} : call.code.security[n] = 0
    /\ result.value.metrics.security_score = 80
    /\ result.value.security.score = 100 - 20 * MaxMatches

SecurityRiskLevel(score) ==
    IF score < 50 THEN "high" ELSE IF score < 80 THEN "medium" ELSE "low"

OptimizationLevel(score) ==
    IF score < 60 THEN "high" ELSE IF score < 80 THEN "medium" ELSE "low"

(* C17: the score of _security_analysis is max(0, 100 - 20 n) for n         *)
(* reported issues, and risk_level is 'high' below 50, 'medium' from 50 to  *)
(* below 80 and 'low' from 80 on, decided on that returned score; the score *)
(* of _performance_analysis is max(0, 100 - 15 n), and optimization_level   *)
(* is 'high' below 60, 'medium' from 60 to below 80 and 'low' from 80 on.   *)
C17_ScoresAndLevels ==
    AnalysisOk =>
        LET security == result.value.security
            performance == result.value.performance
        IN /\ security.score = Max(0, 100 - 20 * Len(security.issues))
           /\ security.risk_level = SecurityRiskLevel(security.score)
           /\ performance.score = Max(0, 100 - 15 * Len(performance.issues))
           /\ performance.optimization_level = OptimizationLevel(performance.score)

(* more issues than the score can count down: both scores are clamped *)
C17_Witness ==
    /\ AnalysisOk
    /\ Len(result.value.security.issues) > 5
    /\ Len(result.value.performance.issues) > 6
    /\ result.value.security.score = 0
    /\ result.value.security.risk_level = "high"
    /\ result.value.performance.score = 0
    /\ result.value.performance.optimization_level = "high"

ReviewParsed == pc = "returned" /\ call.op = "_parse_review_response"

(* the position of the most recent line at or before i that holds a        *)
(* keyword; 0 when there is none                                           *)
LastKeywordLine(lines, i) ==
    LET holders == {j \in 1..i : lines[j].keys # {}}
    IN IF holders = {} THEN 0 ELSE CHOOSE j \in holders : \A k \in holders : k <= j

(* the lines that are not blank, do not start with '#' and come at or      *)
(* after the first line that holds a keyword                               *)
StorableLines(lines) ==
    {i \in 1..Len(lines) :
        /\ lines[i].lead \notin {"blank", "#"}
        /\ LastKeywordLine(lines, i) # 0}

(* the members of a set of positions, in ascending order *)
RECURSIVE Ascending(_)
Ascending(positions) ==
    IF positions = {} THEN <<>>
    ELSE LET first == CHOOSE i \in positions : \A j \in positions : i <= j
         IN <<first>> \o Ascending(positions \ {first})

LinesStored(entries) == [k \in 1..Len(entries) |-> entries[k].line]

(* the entries of all the sections together *)
RECURSIVE TotalEntries(_, _)
TotalEntries(sections, names) ==
    IF names = <<>> THEN 0
    ELSE Len(sections[Head(names)]) + TotalEntries(sections, Tail(names))

(* C18: in _parse_review_response every line that is not blank, does not    *)
(* start with '#' and comes at or after the first line holding a keyword is *)
(* stored in exactly one section, the one selected by the most recent line  *)
(* holding a keyword (that line included); the lines before the first such  *)
(* line are stored nowhere; the stored entries, each line concatenated into *)
(* overall_assessment counting as one, are as many as those lines.          *)
C18_EveryLineOnce ==
    ReviewParsed =>
        LET lines == call.lines
            sections == result.value
            SectionAt(i) == DetectSection(ReviewSections, lines[LastKeywordLine(lines, i)])
        IN /\ \A s \in Range(ReviewSections) :
                  LET taken == Ascending({i \in StorableLines(lines) : SectionAt(i) = s})
                  IN LinesStored(sections[s]) = [k \in 1..Len(taken) |-> lines[taken[k]]]
           /\ TotalEntries(sections, ReviewSections) = Cardinality(StorableLines(lines))

(* a line before the first header is dropped, the header itself is not     *)
(* stored, the line after it is                                            *)
C18_Witness ==
    /\ ReviewParsed
    /\ call.lines = <<Line("text", {}), Line("#", {"security"}), Line("-", {})>>
    /\ result.value["security"] = <<Entry(Line("-", {}), TRUE)>>
    /\ \A s \in Range(ReviewSections) \ {"security"} : result.value[s] = <<>>

(* the order in which the sections are tried *)
SectionOrder ==
    <<"overall_assessment", "critical_issues", "code_quality", "performance",
      "security", "best_practices", "refactoring_opportunities", "positive_aspects">>

(* the first section, in that order, among those whose keywords a line holds *)
FirstSection(keys) ==
    SectionOrder[CHOOSE i \in 1..Len(SectionOrder) :
                    /\ SectionOrder[i] \in keys
                    /\ \A j \in 1..(i - 1) : SectionOrder[j] \notin keys]

(* C19: a line holding keywords of several sections selects the first of    *)
(* them in the order overall_assessment, critical_issues, code_quality,     *)
(* performance, security, best_practices, refactoring_opportunities,        *)
(* positive_aspects; any line holding a keyword, header or content,         *)
(* switches the current section, and a line holding none leaves it as it    *)
(* is.  Seen in the result: every stored line lies in the first section of  *)
(* the most recent line holding a keyword.                                  *)
C19_FirstSectionWins ==
    ReviewParsed =>
        \A i \in StorableLines(call.lines) :
            LET section == FirstSection(call.lines[LastKeywordLine(call.lines, i)].keys)
            IN \E k \in 1..Len(result.value[section]) :
                  result.value[section][k].line = call.lines[i]

(* 'security' and 'issues' on one line select critical_issues, and the     *)
(* line after it stays there                                               *)
C19_Witness ==
    /\ ReviewParsed
    /\ call.lines = <<Line("text", {"security"}),
                      Line("text", {"critical_issues", "security"}),
                      Line("text", {})>>
    /\ result.value["security"] = <<Entry(Line("text", {"security"}), FALSE)>>
    /\ result.value["critical_issues"] =
           <<Entry(Line("text", {"critical_issues", "security"}), FALSE),
             Entry(Line("text", {}), FALSE)>>

RefactorParsed == pc = "returned" /\ call.op = "_parse_refactor_response"

(* the positions of the lines that start with three backquotes *)
Fences(lines) == Ascending({i \in 1..Len(lines) : lines[i].lead = "fence"})

(* line i lies inside a block: an odd number of fences comes before it *)
InsideBlock(lines, i) ==
    lines[i].lead # "fence"
    /\ Cardinality({j \in 1..(i - 1) : lines[j].lead = "fence"}) % 2 = 1

(* the lines of the last block that was closed, blank ones left out; the   *)
(* empty text when no block was closed                                     *)
LastClosedBlock(lines) ==
    LET fences == Fences(lines)
        closed == Len(fences) \div 2
    IN IF closed = 0 THEN <<>>
       ELSE LET inside == Ascending({i \in (fences[2 * closed - 1] + 1)..(fences[2 * closed] - 1) :
                                        lines[i].lead # "blank"})
            IN [k \in 1..Len(inside) |-> lines[inside[k]]]

(* the most recent line at or before i, outside every block, that holds a  *)
(* keyword of the refactoring sections; 0 when there is none               *)
LastOutsideKeywordLine(lines, i) ==
    LET holders == {j \in 1..i : /\ lines[j].lead # "fence"
                                 /\ ~InsideBlock(lines, j)
                                 /\ lines[j].keys \cap Range(RefactorSections) # {}}
    IN IF holders = {} THEN 0 ELSE CHOOSE j \in holders : \A k \in holders : k <= j

(* the lines outside every block that a section takes *)
OutsideLines(lines, section) ==
    {i \in 1..Len(lines) :
        /\ lines[i].lead \notin {"blank", "#", "fence"}
        /\ ~InsideBlock(lines, i)
        /\ LastOutsideKeywordLine(lines, i) # 0
        /\ DetectSection(RefactorSections, lines[LastOutsideKeywordLine(lines, i)]) = section}

(* C20: in _parse_refactor_response each line starting with three           *)
(* backquotes toggles the code-block state; inside a block no line is       *)
(* appended to changes_summary, improvements or suggestions and no line     *)
(* changes the current section; refactored_code is the content of the last  *)
(* block that was closed (its lines that are not blank, as the parser keeps *)
(* them), and a block that is never closed contributes nothing.             *)
C20_CodeBlocks ==
    RefactorParsed =>
        LET lines == call.lines
            sections == result.value
        IN /\ sections.refactored_code = LastClosedBlock(lines)
           /\ \A s \in Range(RefactorSections) :
                  LET taken == Ascending(OutsideLines(lines, s))
                  IN LinesStored(sections[s]) = [k \in 1..Len(taken) |-> lines[taken[k]]]

(* two closed blocks: the second one is kept, and its line with the        *)
(* keyword of changes_summary neither is stored there nor selects it       *)
C20_Witness ==
    /\ RefactorParsed
    /\ call.lines = <<FenceLine, Line("text", {}), FenceLine,
                      FenceLine, Line("text", {"changes_summary"}), FenceLine>>
    /\ result.value.refactored_code = <<Line("text", {"changes_summary"})>>
    /\ result.value.changes_summary = <<>>

ApplyDone == pc = "returned" /\ call.op = "apply_refactoring"

(* C21: for a response whose single fenced block holds the lines T, the     *)
(* refactored_code of _parse_refactor_response is T line for line, leading  *)
(* indentation and blank lines kept, so that apply_refactoring, given it    *)
(* and the original code, parses it whenever T is valid Python.             *)
C21_CodeKept ==
    ApplyDone =>
        /\ result.value.refactored_code = call.block
        /\ IsValidPython(call.block) => "error" \notin DOMAIN result.value.applied

(* a function with an indented body and a blank line comes out flat, and   *)
(* apply_refactoring reports a syntax error                                *)
C21_Witness ==
    /\ ApplyDone
    /\ call.block = <<Line("def f", {}), BlankLine, Indented(Line("text", {}), 1)>>
    /\ IsValidPython(call.block)
    /\ result.value.refactored_code = <<Line("def f", {}), Line("text", {})>>
    /\ result.value.applied = [success |-> FALSE, error |-> "Syntax error in refactored code"]

SuggestDone == pc = "returned" /\ call.op = "suggest_test_improvements"

(* C22: the list of suggest_test_improvements holds 'Consider breaking      *)
(* down large functions for better testability' whenever the code has more  *)
(* than 5 function definitions and 'Add more comprehensive class method     *)
(* tests' whenever it has more than 3 classes; it is never empty and has at *)
(* most 5 entries.                                                          *)
C22_SpecificSuggestions ==
    SuggestDone =>
        LET suggestions == result.value
            Holds(text) == \E i \in 1..Len(suggestions) : suggestions[i] = text
        IN /\ call.code.functions > 5
                  => Holds("Consider breaking down large functions for better testability")
           /\ call.code.classes > 3
                  => Holds("Add more comprehensive class method tests")
           /\ Len(suggestions) \in 1..5

(* six functions and four classes: the five suggestions are the first five *)
(* of the fixed list                                                       *)
C22_Witness ==
    /\ SuggestDone
    /\ call.code.functions = 6
    /\ call.code.classes = 4
    /\ Len(result.value) = 5
    /\ result.value[5] = "Consider adding mutation testing"

SummaryDone == pc = "returned" /\ call.op = "_generate_summary"

FirstThree(entries) == SubSeq(entries, 1, Min(3, Len(entries)))

(* C23: _generate_summary gives overall_score as the arithmetic mean of     *)
(* security_score, performance_score and maintainability_index, hence       *)
(* between 0 and 100 (in thirtieths: the sum of ten times each score and    *)
(* of the index in tenths, between 0 and 3000); recommendations holds the   *)
(* first 3 entries of critical_issues, code_quality, security and           *)
(* performance, in that order, at most 12, and is empty when the review did *)
(* not succeed; test_coverage is 0 when the test generation did not         *)
(* succeed and at most 95 otherwise.                                        *)
C23_Summary ==
    SummaryDone =>
        LET summary == result.value
            metrics == call.analysis.metrics
            review == call.review
        IN /\ summary.overall_score =
                  10 * metrics.security_score + 10 * metrics.performance_score
                  + metrics.maintainability_index
           /\ summary.overall_score \in 0..3000
           /\ Len(summary.recommendations) <= 12
           /\ review.success =>
                  summary.recommendations =
                      FirstThree(review.review["critical_issues"])
                      \o FirstThree(review.review["code_quality"])
                      \o FirstThree(review.review["security"])
                      \o FirstThree(review.review["performance"])
           /\ ~review.success => summary.recommendations = <<>>
           /\ ~call.tests.success => summary.test_coverage = 0
           /\ call.tests.success => summary.test_coverage \in 0..95

(* four sections of four lines each, a capped coverage and a mean below    *)
(* 100                                                                     *)
C23_Witness ==
    /\ SummaryDone
    /\ call.review.success
    /\ \A s \in {"critical_issues", "code_quality", "security", "performance"} :
           Len(call.review.review[s]) = MaxEntries
    /\ Len(result.value.recommendations) = 12
    /\ result.value.recommendations[1].line = Line("text", {"critical_issues"})
    /\ result.value.recommendations[12].line = Line("text", {"performance"})
    /\ call.tests.success
    /\ result.value.test_coverage = 95
    /\ result.value.overall_score \in 1..2999
====
